---- MODULE Spec2Model ----
(***************************************************************************)
(* Document ingestion of the student support assistant: the flat-file      *)
(* store (lib/file-storage.ts), the folder synchronizer and change watcher *)
(* (lib/file-monitor.ts, lib/file-monitor-server.ts), the text extractor   *)
(* and checksum (lib/document-processor.ts) and the routes that drive them.*)
(*                                                                         *)
(* Strings that the code takes apart (file names, paths) are sequences of  *)
(* one-character strings, so that path.extname, toLowerCase, endsWith and  *)
(* the watcher's dotfile pattern are computed, not looked up.              *)
(* A path string is [abs, segs]: abs tells whether it starts with "/",     *)
(* segs are its segments.                                                  *)
(***************************************************************************)
EXTENDS Integers, Sequences, FiniteSets, TLC

VARIABLES
    fs,             \* the disk: absolute segments -> 0 absent, -1 dangling link, b > 0 file bytes
    assistants,     \* data/assistants.json: id -> record (exists, documentsFolder, lastDocumentSync)
    documents,      \* data/documents.json: the array of Document records
    watchers,       \* FileMonitor.watchers: assistantId -> subscription id (0: no entry)
    subscriptions,  \* the chokidar watchers that are not closed
    nextWatcher,    \* identity of the next chokidar watcher
    events,         \* filesystem events chokidar has still to deliver
    handlers,       \* handleFileChange calls suspended at `await extractText`
    runs,           \* syncFolder calls in flight, with the request that awaits them
    requests,       \* process-documents requests in flight
    notifications,  \* what sendUpdateNotification has logged
    returned,       \* what the last completed syncFolder call returned, per assistant
    clock,          \* the time: what `new Date()` yields
    issued,         \* how many document ids generateId has issued
    created,        \* what POST /api/assistants has answered, per assistant
    conversations,  \* conversations.json: the stored Conversation records
    amplifyFileCache, \* AIService.amplifyFileCache: document id -> file id
    lastUploadError,  \* AIService.lastUploadError
    chats,          \* generateResponse calls in flight
    remoteFiles,    \* the files the remote store holds: document id and key
    nextKey,        \* the next key the remote store issues
    answers,        \* what the last completed generateResponse call returned, per assistant
    collection,     \* the 'conversations' collection the chat route reads and writes
    posts,          \* chat requests suspended at `await AIService.generateResponse`
    uuids,          \* how many identifiers uuidv4 has issued
    replied,        \* the status of the last answer of the chat route, per request slot
    docContent,     \* buildEnhancedContext: the content of the document, in blocks
    userQuery,      \* buildEnhancedContext: the query
    relevantContent \* buildEnhancedContext: the excerpt selected for the document

\* the state of lib/ai-service.ts and of the remote service it talks to
aiVars == <<amplifyFileCache, lastUploadError, chats, remoteFiles, nextKey, answers>>

\* the state of the chat route (app/api/assistants/[id]/chat/route.ts)
chatVars == <<collection, posts, uuids, replied>>

\* the input and the result of the context selector (lib/ai-service.ts 322-435)
selVars == <<docContent, userQuery, relevantContent>>

vars == <<fs, assistants, documents, watchers, subscriptions, nextWatcher, events,
          handlers, runs, requests, notifications, returned, clock, issued, created,
          conversations, aiVars, chatVars, selVars>>

-----------------------------------------------------------------------------
(* Bounds of the model *)

MaxByte == 4          \* file contents are 1..MaxByte
MaxClock == 2         \* the time runs from 1 to MaxClock; the disk changes at most once per tick
MaxWatchers == 3      \* number of chokidar watchers ever created
MaxEvents == 4        \* filesystem events pending delivery
MaxHandlers == 2      \* watcher handlers suspended at once
MaxRequests == 2      \* process-documents requests in flight at once
MaxRuns == 1          \* syncFolder calls in flight at once
MaxChats == 1         \* generateResponse calls in flight at once
MaxOverlap == 2       \* generateResponse calls that overlap
MaxPosts == 2         \* chat requests in flight at once
MaxUuids == 4         \* identifiers uuidv4 issues
MaxStored == 2        \* conversations in the collection
MaxBlocks == 5        \* blocks of a document's content
BlockSize == 1000     \* characters of a block
LineLength == 100     \* characters of a line, its line break included
MaxKeys == 2          \* keys the remote store issues
MaxConversations == 2 \* stored conversations
MaxIssued == 4        \* ids issued to conversations

-----------------------------------------------------------------------------
(* Strings *)

Str_docs == <<"d", "o", "c", "s">>
Str_other == <<"o", "t", "h">>
Str_nodir == <<"n", "o">>
Str_app == <<"a", "p", "p">>
Str_a_txt == <<"a", ".", "t", "x", "t">>
Str_b_pdf == <<"b", ".", "P", "D", "F">>
Str_c_bin == <<"c", ".", "b", "i", "n">>
Str_h_md == <<".", "h", ".", "m", "d">>
Str_dotdir == <<".", "g">>
Str_e_md == <<"e", ".", "m", "d">>
Str_lnk == <<"l", "n", "k">>
Str_p_pdf == <<"p", ".", "p", "d", "f">>

Ext_pdf == <<".", "p", "d", "f">>
Ext_docx == <<".", "d", "o", "c", "x">>
Ext_txt == <<".", "t", "x", "t">>
Ext_md == <<".", "m", "d">>

\* String.prototype.toLowerCase on the letters that occur
LowerChar(c) ==
    CASE c = "P" -> "p"
      [] c = "D" -> "d"
      [] c = "F" -> "f"
      [] OTHER -> c

\* the order of the characters that occur (their code points)
CharOrder == <<".", "D", "F", "P", "a", "b", "c", "d", "e", "g", "h", "i", "k", "l",
               "m", "n", "o", "p", "s", "t", "x">>

ToLowerCase(s) == [i \in 1..Len(s) |-> LowerChar(s[i])]

\* the characters of s at the indexes in keep, in their order
Pick(s, keep) ==
    [k \in 1..Cardinality(keep) |->
        s[CHOOSE i \in keep : Cardinality({j \in keep : j <= i}) = k]]

\* the class [a-z0-9]
IsSlugChar(c) ==
    c \in {"a", "b", "c", "d", "e", "f", "g", "h", "i", "j", "k", "l", "m", "n", "o",
           "p", "q", "r", "s", "t", "u", "v", "w", "x", "y", "z",
           "0", "1", "2", "3", "4", "5", "6", "7", "8", "9"}

\* replace(/[^a-z0-9]/g, '-')
ReplaceOthers(s) == [i \in 1..Len(s) |-> IF IsSlugChar(s[i]) THEN s[i] ELSE "-"]

\* replace(/-+/g, '-'): of each run of "-" the first one stays
CollapseDashes(s) ==
    Pick(s, {i \in 1..Len(s) : ~(s[i] = "-" /\ i > 1 /\ s[i - 1] = "-")})

\* String.prototype.trim takes no argument: the '-' passed to it is ignored and
\* white space is stripped from both ends
Trim(s) ==
    LET solid == {i \in 1..Len(s) : s[i] # " "}
    IN IF solid = {} THEN <<>>
       ELSE SubSeq(s, CHOOSE i \in solid : \A j \in solid : i <= j,
                      CHOOSE i \in solid : \A j \in solid : j <= i)

\* route.ts 56 and [id]/route.ts 36: the slug of a name
Slug(name) == Trim(CollapseDashes(ReplaceOthers(ToLowerCase(name))))

Name_Doc == <<"D", "o", "c">>
Name_doc == <<"d", "o", "c">>
Name_d_c == <<"d", ".", "c">>
Name_d__c == <<"d", " ", ".", "c">>
Name_oth == <<"o", "t", "h">>

\* the names the requests carry
Names == {Name_Doc, Name_doc, Name_d_c, Name_d__c, Name_oth}

\* the name of the request that creates the first and the second assistant, where
\* a specification fixes it
NameFor == [a1 |-> Name_Doc, a2 |-> Name_oth]

\* the sessions conversations belong to
SessionIds == {1, 2}

EndsWith(s, suffix) ==
    /\ Len(s) >= Len(suffix)
    /\ SubSeq(s, Len(s) - Len(suffix) + 1, Len(s)) = suffix

\* index of the last "." of s, 0 if none
LastDot(s) ==
    LET dots == {i \in 1..Len(s) : s[i] = "."}
    IN IF dots = {} THEN 0 ELSE CHOOSE i \in dots : \A j \in dots : j <= i

\* path.extname of a file name: from the last "." on, "" when there is none or
\* when it is the first character of the name
ExtName(name) ==
    LET d == LastDot(name)
    IN IF d <= 1 THEN <<>> ELSE SubSeq(name, d, Len(name))

-----------------------------------------------------------------------------
(* Paths *)

Cwd == [abs |-> TRUE, segs |-> <<Str_app>>]

Rel(segs) == [abs |-> FALSE, segs |-> segs]

\* path.join(a, b) for b relative
Join(a, b) == [abs |-> a.abs, segs |-> a.segs \o b.segs]

BaseName(p) == p.segs[Len(p.segs)]

\* where a path string leads on the disk: relative paths resolve against the
\* working directory
Resolve(p) == IF p.abs THEN p.segs ELSE Cwd.segs \o p.segs

IsPrefix(s, t) == Len(s) <= Len(t) /\ SubSeq(t, 1, Len(s)) = s

\* chokidar's `ignored: /(^|[\/\\])\../`: some segment starts with "." and a
\* further character (of the segment, or the separator after it) follows
IsIgnored(p) ==
    \E i \in 1..Len(p.segs) :
        /\ Len(p.segs[i]) >= 1
        /\ p.segs[i][1] = "."
        /\ (Len(p.segs[i]) >= 2 \/ i < Len(p.segs))

-----------------------------------------------------------------------------
(* The disk the model runs on *)

DocsDir == Cwd.segs \o <<Str_docs>>
DotDir == DocsDir \o <<Str_dotdir>>
OtherDir == Cwd.segs \o <<Str_other>>

File_a == DocsDir \o <<Str_a_txt>>
File_b == DocsDir \o <<Str_b_pdf>>
File_c == DocsDir \o <<Str_c_bin>>
File_h == DocsDir \o <<Str_h_md>>
File_e == DotDir \o <<Str_e_md>>
File_l == DocsDir \o <<Str_lnk>>
File_o == OtherDir \o <<Str_p_pdf>>

Dirs == {Cwd.segs, DocsDir, DotDir, OtherDir}
Entries == {File_a, File_b, File_c, File_h, File_e, File_l, File_o}

\* the entries the environment rewrites, removes and touches while the model runs
Volatile == {File_a, File_b}

\* the folders staff configure: two that exist, one that does not
Folders == {Rel(<<Str_docs>>), Rel(<<Str_other>>), Rel(<<Str_nodir>>)}

Bytes == 1..MaxByte
Absent == 0
Dangling == -1

AssistantIds == {"a1", "a2"}


-----------------------------------------------------------------------------
(* lib/document-processor.ts *)

Mime_pdf == "application/pdf"
Mime_docx == "application/vnd.openxmlformats-officedocument.wordprocessingml.document"
Mime_txt == "text/plain"
Mime_md == "text/markdown"
Mime_other == "application/octet-stream"

getSupportedMimeTypes == {Mime_pdf, Mime_docx, Mime_txt, Mime_md}

isFileSupported(mimeType) == mimeType \in getSupportedMimeTypes

\* The digest has a fixed width, the files have not: the model keeps the width
\* (HashRange values) below the number of file contents, as md5's 2^128 values
\* are below the number of byte strings.
HashRange == 3

generateChecksum(bytes) == bytes % HashRange

\* pdf-parse and mammoth reject some byte strings; the model lets them reject
\* the content CorruptBytes
CorruptBytes == 2

ParserRejects(mimeType, bytes) ==
    mimeType \in {Mime_pdf, Mime_docx} /\ bytes = CorruptBytes

\* the text of a file that the parser accepts: what was decoded, and how
extractText(mimeType, bytes) ==
    [decoder |-> IF mimeType \in {Mime_txt, Mime_md} THEN "utf-8" ELSE mimeType,
     bytes |-> bytes]

-----------------------------------------------------------------------------
(* lib/file-monitor.ts: pure parts *)

getMimeType(filePath) ==
    LET ext == ToLowerCase(ExtName(BaseName(filePath)))
    IN CASE ext = Ext_pdf -> Mime_pdf
         [] ext = Ext_docx -> Mime_docx
         [] ext = Ext_txt -> Mime_txt
         [] ext = Ext_md -> Mime_md
         [] OTHER -> Mime_other

\* fs.statSync: throws for an entry that is missing or a dangling link
StatThrows(disk, segs) ==
    IF segs \in Dirs THEN FALSE
    ELSE IF segs \in Entries THEN disk[segs] \in {Absent, Dangling}
    ELSE TRUE

StatIsFile(disk, segs) == segs \in Entries /\ disk[segs] > 0

\* fs.existsSync
ExistsSync(disk, segs) ==
    \/ segs \in Dirs
    \/ segs \in Entries /\ disk[segs] > 0

\* fs.readdirSync(dir): the entries of dir, files, links and directories alike,
\* as full segments, in the directory's order
Before(s, t) ==
    LET n == IF Len(s) < Len(t) THEN Len(s) ELSE Len(t)
        diff == {i \in 1..n : s[i] # t[i]}
        Code(c) == CHOOSE k \in 1..Len(CharOrder) : CharOrder[k] = c
    IN IF diff = {} THEN Len(s) < Len(t)
       ELSE LET i == CHOOSE i \in diff : \A j \in diff : i <= j
            IN Code(s[i]) < Code(t[i])

ReadDir(disk, dir) ==
    {e \in Entries : Len(e) = Len(dir) + 1 /\ IsPrefix(dir, e) /\ disk[e] # Absent}
    \cup {d \in Dirs : Len(d) = Len(dir) + 1 /\ IsPrefix(dir, d)}

Last(s) == s[Len(s)]

\* a set of sibling entries as the sequence readdirSync returns
RECURSIVE InOrder(_)
InOrder(S) ==
    IF S = {} THEN <<>>
    ELSE LET m == CHOOSE x \in S : \A y \in S \ {x} : Before(Last(x), Last(y))
         IN <<m>> \o InOrder(S \ {m})

\* getAllFiles: [threw, files]; a statSync that throws ends the whole walk
RECURSIVE getAllFiles(_, _)
getAllFiles(disk, folderPath) ==
    LET items == InOrder(ReadDir(disk, Resolve(folderPath)))
        Walk[i \in 0..Len(items)] ==
            IF i = 0 THEN [threw |-> FALSE, files |-> <<>>]
            ELSE LET prev == Walk[i - 1]
                     itemPath == Join(folderPath, Rel(<<Last(items[i])>>))
                 IN IF prev.threw THEN prev
                    ELSE IF StatThrows(disk, items[i])
                         THEN [threw |-> TRUE, files |-> <<>>]
                    ELSE IF StatIsFile(disk, items[i])
                         THEN [threw |-> FALSE, files |-> Append(prev.files, itemPath)]
                    ELSE LET sub == getAllFiles(disk, itemPath)
                         IN IF sub.threw THEN sub
                            ELSE [threw |-> FALSE, files |-> prev.files \o sub.files]
    IN Walk[Len(items)]

-----------------------------------------------------------------------------
(* lib/file-storage.ts *)

NoFolder == Rel(<<>>)
\* an id generateId has not issued yet; ids are never issued twice, so the id of
\* a deleted assistant stays "deleted"
NoAssistant == [status |-> "free", name |-> <<>>, slug |-> <<>>,
                documentsFolder |-> NoFolder, lastDocumentSync |-> 0]

Stored(store, id) == store[id].status = "stored"

\* generateId: the ids are issued in the order a1, a2; FreeIds is empty when all
\* are issued
IdOrder == <<"a1", "a2">>

FreeIds(store) == {i \in 1..Len(IdOrder) : store[IdOrder[i]].status = "free"}

generateId(store) ==
    IF FreeIds(store) = {} THEN "none"
    ELSE IdOrder[CHOOSE i \in FreeIds(store) : \A j \in FreeIds(store) : i <= j]

\* { ...old, ...updates }
Spread(old, updates) ==
    [f \in DOMAIN old \cup DOMAIN updates |->
        IF f \in DOMAIN updates THEN updates[f] ELSE old[f]]

getDocumentsByAssistant(docs, assistantId) ==
    SelectSeq(docs, LAMBDA d : d.assistantId = assistantId)

\* findIndex on (assistantId, filePath): 0 stands for -1
FindDocument(docs, assistantId, filePath) ==
    LET hits == {i \in 1..Len(docs) :
                    docs[i].assistantId = assistantId /\ docs[i].filePath = filePath}
    IN IF hits = {} THEN 0 ELSE CHOOSE i \in hits : \A j \in hits : i <= j

\* createDocument (file-storage.ts 115-125): the record gets a fresh _id
createDocument(docs, documentData) ==
    Append(docs, Spread(documentData, [_id |-> issued + 1]))

\* the ids issued once the store holds docs
Issued(docs) ==
    IF \E i \in 1..Len(docs) : docs[i]._id > issued THEN issued + 1 ELSE issued

\* a store whose updateDocument does not look the record up: every upsert appends
updateDocument_AlwaysCreates(docs, assistantId, filePath, updates) ==
    createDocument(docs,
        Spread([assistantId |-> assistantId, filePath |-> filePath], updates))

\* a store whose updateDocument matches the path alone: the record of another
\* assistant that watches the same file is taken for the one to update
updateDocument_ByPathAlone(docs, assistantId, filePath, updates) ==
    LET hits == {i \in 1..Len(docs) : docs[i].filePath = filePath}
    IN IF hits = {}
       THEN createDocument(docs,
                Spread([assistantId |-> assistantId, filePath |-> filePath], updates))
       ELSE [docs EXCEPT ![CHOOSE i \in hits : \A j \in hits : i <= j] =
                            Spread(docs[CHOOSE i \in hits : \A j \in hits : i <= j], updates)]

updateDocument(docs, assistantId, filePath, updates) ==
    LET index == FindDocument(docs, assistantId, filePath)
    IN IF index = 0
       THEN createDocument(docs,
                Spread([assistantId |-> assistantId, filePath |-> filePath], updates))
       ELSE [docs EXCEPT ![index] = Spread(docs[index], updates)]

\* a store whose deleteDocument matches the path alone
deleteDocument_ByPathAlone(docs, assistantId, filePath) ==
    SelectSeq(docs, LAMBDA d : d.filePath # filePath)

deleteDocument(docs, assistantId, filePath) ==
    SelectSeq(docs, LAMBDA d : ~(d.assistantId = assistantId /\ d.filePath = filePath))

deleteDocumentsByAssistant(docs, assistantId) ==
    SelectSeq(docs, LAMBDA d : d.assistantId # assistantId)

\* getAssistantBySlug: whether some stored assistant has the slug
getAssistantBySlug(store, slug) ==
    \E a \in DOMAIN store : Stored(store, a) /\ store[a].slug = slug

\* createConversation (file-storage.ts 176-186)
createConversation(convs, conversationData) ==
    Append(convs, Spread(conversationData, [_id |-> issued + 1]))

\* a store that leaves the conversations of a deleted assistant behind
deleteConversationsByAssistant_None(convs, assistantId) == convs

deleteConversationsByAssistant(convs, assistantId) ==
    SelectSeq(convs, LAMBDA c : c.assistantId # assistantId)

\* updateAssistant: nothing is written when no assistant has the id
updateAssistant(store, id, updates) ==
    IF Stored(store, id) THEN [store EXCEPT ![id] = Spread(store[id], updates)]
    ELSE store

-----------------------------------------------------------------------------
(* lib/file-monitor.ts: handleFileChange up to its first suspension *)

\* a handler without the checksum comparison: no event is skipped
Suppressed_Never(docs, assistantId, filePath, checksum, changeType) == FALSE

\* a handler that compares the path and not the checksum
Suppressed_ByPathAlone(docs, assistantId, filePath, checksum, changeType) ==
    /\ changeType = "changed"
    /\ \E i \in 1..Len(docs) :
          /\ docs[i].assistantId = assistantId
          /\ docs[i].filePath = filePath

\* lines 62-65: a record of the assistant with this path and this checksum, and
\* the event is `changed`
Suppressed(docs, assistantId, filePath, checksum, changeType) ==
    /\ changeType = "changed"
    /\ \E i \in 1..Len(docs) :
          /\ docs[i].assistantId = assistantId
          /\ docs[i].filePath = filePath
          /\ docs[i].checksum = checksum

\* lines 48-56
Eligible(disk, filePath) ==
    /\ ~StatThrows(disk, Resolve(filePath))
    /\ StatIsFile(disk, Resolve(filePath))
    /\ isFileSupported(getMimeType(filePath))

\* lines 48-71: whether the call goes on to extract (and so suspends), and what
\* it holds when it does; the file is read before the call suspends
ReadsFile(disk, docs, assistantId, filePath, changeType) ==
    /\ Eligible(disk, filePath)
    /\ ~Suppressed(docs, assistantId, filePath,
                   generateChecksum(disk[Resolve(filePath)]), changeType)

Pending(disk, assistantId, filePath, changeType) ==
    LET bytes == disk[Resolve(filePath)]
        mimeType == getMimeType(filePath)
    IN [assistantId |-> assistantId, filePath |-> filePath, changeType |-> changeType,
        mimeType |-> mimeType,
        checksum |-> generateChecksum(bytes),
        rejected |-> ParserRejects(mimeType, bytes),
        content |-> extractText(mimeType, bytes)]

\* lines 74-87
documentData(h) ==
    [assistantId |-> h.assistantId, filename |-> BaseName(h.filePath),
     filePath |-> h.filePath, mimeType |-> h.mimeType,
     content |-> h.content, processed |-> TRUE, checksum |-> h.checksum]

-----------------------------------------------------------------------------
(* lib/file-monitor.ts: the watchers *)

\* the monitor's state as one value, for the operations that several requests
\* chain: the `watchers` map, the open chokidar watchers, the pending events
Monitor == [watchers |-> watchers, subscriptions |-> subscriptions,
            nextWatcher |-> nextWatcher, events |-> events]

\* the path string chokidar reports for a disk entry under a watched folder
ReportedPath(folderPath, entry) ==
    Join(folderPath,
         Rel(SubSeq(entry, Len(Resolve(folderPath)) + 1, Len(entry))))

\* chokidar reports the entries under the watched folder that `ignored` lets pass
Watches(folderPath, entry) ==
    /\ IsPrefix(Resolve(folderPath), entry)
    /\ Len(entry) > Len(Resolve(folderPath))
    /\ ~IsIgnored(ReportedPath(folderPath, entry))

\* watcher.close() and this.watchers.delete: the closed watcher reports nothing more
stopMonitoring(mon, assistantId) ==
    IF mon.watchers[assistantId] = 0 THEN mon
    ELSE [mon EXCEPT
            !.subscriptions = {s \in @ : s.id # mon.watchers[assistantId]},
            !.events = SelectSeq(@, LAMBDA e : e.w # mon.watchers[assistantId]),
            !.watchers[assistantId] = 0]

\* ignoreInitial: false: the new watcher reports `add` for every file it finds
InitialEvents(disk, id, folderPath) ==
    LET found == InOrder({e \in Entries : Watches(folderPath, e) /\ disk[e] > 0})
    IN [i \in 1..Len(found) |->
            [w |-> id, kind |-> "add", path |-> ReportedPath(folderPath, found[i])]]

\* a startMonitoring that leaves the previous watcher open
ClosesPrevious_Never(mon, assistantId) == mon

ClosesPrevious(mon, assistantId) ==
    IF mon.watchers[assistantId] # 0 THEN stopMonitoring(mon, assistantId) ELSE mon

startMonitoring(mon, disk, assistantId, folderPath) ==
    LET stopped == ClosesPrevious(mon, assistantId)
        id == mon.nextWatcher
    IN [watchers |-> [stopped.watchers EXCEPT ![assistantId] = id],
        subscriptions |-> stopped.subscriptions \cup
            {[id |-> id, assistantId |-> assistantId, folderPath |-> folderPath]},
        nextWatcher |-> id + 1,
        events |-> stopped.events \o InitialEvents(disk, id, folderPath)]

\* a wrapper without the existsSync check of lines 13-16
safeStartMonitoring_Unchecked(mon, disk, assistantId, folderPath) ==
    startMonitoring(mon, disk, assistantId, folderPath)

\* lib/file-monitor-server.ts
safeStartMonitoring(mon, disk, assistantId, folderPath) ==
    IF ~ExistsSync(disk, Resolve(folderPath)) THEN mon
    ELSE startMonitoring(mon, disk, assistantId, folderPath)

safeStopMonitoring(mon, assistantId) == stopMonitoring(mon, assistantId)

\* the bounds a new state of the monitor has to respect
WithinBounds(mon) == mon.nextWatcher <= MaxWatchers + 1

SetMonitor(mon) ==
    /\ WithinBounds(mon)
    /\ watchers' = mon.watchers
    /\ subscriptions' = mon.subscriptions
    /\ nextWatcher' = mon.nextWatcher
    /\ events' = mon.events

-----------------------------------------------------------------------------
(* Initial state: a fresh server over a disk that holds the documents *)

NoReturn == [called |-> FALSE, threw |-> FALSE, processedCount |-> 0, upserted |-> 0,
             folderPath |-> NoFolder]

\* POST /api/assistants has not answered for this id
NoResponse == [status |-> 0, processedDocuments |-> 0]

\* generateResponse has not returned for this assistant
NoAnswer == [called |-> FALSE, threw |-> FALSE, response |-> "none", fileIds |-> <<>>,
             failed |-> 0, documents |-> 0]

\* an empty Map
NoEntries == [k \in {} |-> 0]

\* no excerpt has been selected
NoExcerpt == [called |-> FALSE, from |-> 0, to |-> 0]

\* the server has just started: nothing stored, nothing watched, nothing in flight
Started ==
    /\ assistants = [a \in AssistantIds |-> NoAssistant]
    /\ documents = <<>>
    /\ watchers = [a \in AssistantIds |-> 0]
    /\ subscriptions = {}
    /\ nextWatcher = 1
    /\ events = <<>>
    /\ handlers = {}
    /\ runs = {}
    /\ requests = {}
    /\ notifications = {}
    /\ returned = [a \in AssistantIds |-> NoReturn]
    /\ clock = 1
    /\ issued = 0
    /\ created = [a \in AssistantIds |-> NoResponse]
    /\ conversations = <<>>
    /\ amplifyFileCache = NoEntries
    /\ lastUploadError = "null"
    /\ chats = {}
    /\ remoteFiles = {}
    /\ nextKey = 1
    /\ answers = [a \in AssistantIds |-> NoAnswer]
    /\ collection = <<>>
    /\ posts = {}
    /\ uuids = 0
    /\ replied = [n \in 1..MaxPosts |-> 0]

\* a fresh server that has been given no document to select from
Fresh ==
    /\ Started
    /\ docContent = <<>>
    /\ userQuery = "none"
    /\ relevantContent = NoExcerpt

\* every document in place, no dangling link
Init ==
    /\ fs = [e \in Entries |-> IF e = File_l THEN Absent ELSE 1]
    /\ Fresh

\* the disks the synchronizer is run on: the one of Init, one with a dangling
\* link in the documents folder, one with a PDF the parser rejects
Disks ==
    {[e \in Entries |-> IF e = File_l THEN l ELSE IF e = File_b THEN b ELSE 1] :
        <<l, b>> \in {<<Absent, 1>>, <<Dangling, 1>>, <<Absent, CorruptBytes>>}}

InitSync ==
    /\ fs \in Disks
    /\ Fresh

-----------------------------------------------------------------------------
(* The environment: files are written, touched and removed, each change at
   a later time than the one before *)

\* what the open watchers queue for one change of a disk entry
Reports(kind, entry) ==
    LET subs == {s \in subscriptions : Watches(s.folderPath, entry)}
        ids == {s.id : s \in subs}
        Sub(id) == CHOOSE s \in subs : s.id = id
        Ordered[n \in 0..MaxWatchers] ==
            IF n = 0 THEN <<>>
            ELSE IF n \in ids
                 THEN Append(Ordered[n - 1],
                        [w |-> n, kind |-> kind,
                         path |-> ReportedPath(Sub(n).folderPath, entry)])
                 ELSE Ordered[n - 1]
    IN Ordered[MaxWatchers]

EnvWrite(entry, bytes) ==
    /\ clock < MaxClock
    /\ clock' = clock + 1
    /\ fs[entry] # bytes
    /\ Len(events \o Reports("add", entry)) <= MaxEvents
    /\ fs' = [fs EXCEPT ![entry] = bytes]
    /\ events' = events \o Reports(IF fs[entry] = Absent THEN "add" ELSE "change", entry)
    /\ UNCHANGED <<assistants, documents, watchers, subscriptions, nextWatcher, handlers,
                   runs, requests, notifications, returned,
                   issued, created, conversations, aiVars, chatVars, selVars>>

\* the file's metadata changes, its bytes do not
EnvTouch(entry) ==
    /\ clock < MaxClock
    /\ clock' = clock + 1
    /\ fs[entry] > 0
    /\ Reports("change", entry) # <<>>
    /\ Len(events \o Reports("change", entry)) <= MaxEvents
    /\ events' = events \o Reports("change", entry)
    /\ UNCHANGED <<fs, assistants, documents, watchers, subscriptions, nextWatcher,
                   handlers, runs, requests, notifications, returned,
                   issued, created, conversations, aiVars, chatVars, selVars>>

EnvRemove(entry) ==
    /\ clock < MaxClock
    /\ clock' = clock + 1
    /\ fs[entry] > 0
    /\ Len(events \o Reports("unlink", entry)) <= MaxEvents
    /\ fs' = [fs EXCEPT ![entry] = Absent]
    /\ events' = events \o Reports("unlink", entry)
    /\ UNCHANGED <<assistants, documents, watchers, subscriptions, nextWatcher, handlers,
                   runs, requests, notifications, returned,
                   issued, created, conversations, aiVars, chatVars, selVars>>

\* a link whose target is missing appears in the documents folder
EnvDanglingLink ==
    /\ fs[File_l] = Absent
    /\ fs' = [fs EXCEPT ![File_l] = Dangling]
    /\ UNCHANGED <<assistants, documents, watchers, subscriptions, nextWatcher, events,
                   handlers, runs, requests, notifications, returned, clock,
                   issued, created, conversations, aiVars, chatVars, selVars>>

-----------------------------------------------------------------------------
(* The watcher's callbacks (file-monitor.ts 22-31) *)

\* chokidar delivers each watcher's events in order
Deliverable(i) ==
    /\ i \in 1..Len(events)
    /\ \A j \in 1..(i - 1) : events[j].w # events[i].w

Without(seq, i) == SubSeq(seq, 1, i - 1) \o SubSeq(seq, i + 1, Len(seq))

AssistantOf(w) == (CHOOSE s \in subscriptions : s.id = w).assistantId

ChangeType(kind) == IF kind = "add" THEN "added" ELSE "changed"

\* handleFileChange, from the event to its return or its suspension at extractText
OnAddOrChange(i) ==
    /\ Deliverable(i)
    /\ events[i].kind \in {"add", "change"}
    /\ LET a == AssistantOf(events[i].w)
           p == events[i].path
           t == ChangeType(events[i].kind)
       IN IF ReadsFile(fs, documents, a, p, t)
          THEN /\ Pending(fs, a, p, t) \notin handlers
               /\ Cardinality(handlers) < MaxHandlers
               /\ handlers' = handlers \cup {Pending(fs, a, p, t)}
          ELSE handlers' = handlers
    /\ events' = Without(events, i)
    /\ UNCHANGED <<fs, assistants, documents, watchers, subscriptions, nextWatcher, runs,
                   requests, notifications, returned, clock,
                   issued, created, conversations, aiVars, chatVars, selVars>>

\* the upsert and what follows it (file-monitor.ts 89-98)
Upsert(h) ==
    /\ documents' = updateDocument(documents, h.assistantId, h.filePath, documentData(h))
    /\ assistants' = updateAssistant(assistants, h.assistantId,
                                     [lastDocumentSync |-> clock])
    /\ notifications' = notifications \cup {<<h.assistantId, h.filePath, h.changeType>>}

\* handleFileChange resumes: extractText has thrown (caught at line 100) or
\* returned the text
AfterExtract(h) ==
    IF h.rejected
    THEN UNCHANGED <<documents, assistants, notifications>>
    ELSE Upsert(h)

OnExtracted(h) ==
    /\ h \in handlers
    /\ AfterExtract(h)
    /\ handlers' = handlers \ {h}
    /\ UNCHANGED <<fs, watchers, subscriptions, nextWatcher, events, runs, requests,
                   returned, clock,
                   created, conversations, aiVars, chatVars, selVars>>
    /\ issued' = Issued(documents')

\* handleFileRemoval
OnUnlink(i) ==
    /\ Deliverable(i)
    /\ events[i].kind = "unlink"
    /\ LET a == AssistantOf(events[i].w)
           p == events[i].path
       IN /\ documents' = deleteDocument(documents, a, p)
          /\ notifications' = notifications \cup {<<a, p, "removed">>}
    /\ events' = Without(events, i)
    /\ UNCHANGED <<fs, assistants, watchers, subscriptions, nextWatcher, handlers, runs,
                   requests, returned, clock,
                   issued, created, conversations, aiVars, chatVars, selVars>>

-----------------------------------------------------------------------------
(* syncFolder (file-monitor.ts 134-158) and the requests that await it *)

\* what the awaiting request does once safeSyncFolder has returned:
\* safeStartMonitoring, and for PUT the write of the new folder
Continue(caller, assistantId, folderPath, store, mon, disk) ==
    [assistants |->
        IF caller = "put"
        THEN updateAssistant(store, assistantId, [documentsFolder |-> folderPath])
        ELSE store,
     monitor |-> safeStartMonitoring(mon, disk, assistantId, folderPath)]

\* safeSyncFolder up to the first suspension of syncFolder's loop.
\* A missing folder ends it before syncFolder is called; a walk that throws
\* makes syncFolder throw, which safeSyncFolder turns into 0.
\* route.ts 110-114: POST answers 201 with the count safeSyncFolder returned
Respond(caller, assistantId, processedCount) ==
    IF caller = "create"
    THEN [created EXCEPT ![assistantId] =
             [status |-> 201, processedDocuments |-> processedCount]]
    ELSE created

BeginSync(caller, assistantId, folderPath, store, mon) ==
    LET walk == getAllFiles(fs, folderPath)
        after == Continue(caller, assistantId, folderPath, store, mon, fs)
    IN IF ~ExistsSync(fs, Resolve(folderPath))
       THEN /\ assistants' = after.assistants
            /\ SetMonitor(after.monitor)
            /\ created' = Respond(caller, assistantId, 0)
            /\ UNCHANGED <<runs, returned>>
       ELSE IF walk.threw
       THEN /\ assistants' = after.assistants
            /\ SetMonitor(after.monitor)
            /\ returned' = [returned EXCEPT ![assistantId] =
                    [called |-> TRUE, threw |-> TRUE, processedCount |-> 0,
                     upserted |-> 0, folderPath |-> folderPath]]
            /\ created' = Respond(caller, assistantId, 0)
            /\ UNCHANGED runs
       ELSE /\ Cardinality(runs) < MaxRuns
            /\ assistants' = store
            /\ SetMonitor(mon)
            /\ runs' = runs \cup
                  {[caller |-> caller, assistantId |-> assistantId,
                    folderPath |-> folderPath, todo |-> walk.files,
                    processedCount |-> 0, upserted |-> 0, current |-> <<>>]}
            /\ UNCHANGED <<returned, created>>

\* POST /api/assistants (route.ts 46-118); a name whose slug is taken is answered
\* with 400 and changes nothing
CreateAssistant(id, name, folderPath) ==
    /\ id = generateId(assistants)
    /\ ~getAssistantBySlug(assistants, Slug(name))
    /\ BeginSync("create", id, folderPath,
                 [assistants EXCEPT ![id] =
                     [status |-> "stored", name |-> name, slug |-> Slug(name),
                      documentsFolder |-> folderPath, lastDocumentSync |-> 0]],
                 Monitor)
    /\ UNCHANGED <<fs, documents, handlers, requests, notifications, clock,
                   issued, conversations, aiVars, chatVars, selVars>>

\* PUT /api/assistants/[id] with another documents folder
ChangeFolder(id, folderPath) ==
    /\ Stored(assistants, id)
    /\ folderPath # assistants[id].documentsFolder
    /\ BeginSync("put", id, folderPath, assistants, safeStopMonitoring(Monitor, id))
    /\ UNCHANGED <<fs, documents, handlers, requests, notifications, clock,
                   issued, conversations, aiVars, chatVars, selVars>>

\* PUT /api/assistants/[id] with another name ([id]/route.ts 20-68): the slug is
\* computed again and written
RenameAssistant(id, name) ==
    /\ Stored(assistants, id)
    /\ name # assistants[id].name
    /\ assistants' = updateAssistant(assistants, id, [name |-> name, slug |-> Slug(name)])
    /\ UNCHANGED <<fs, documents, watchers, subscriptions, nextWatcher, events, handlers,
                   runs, requests, notifications, returned, clock, issued, created,
                   conversations, aiVars, chatVars, selVars>>

\* deleteAssistant (file-storage.ts 89-102); ok tells whether an assistant was deleted
deleteAssistant(store, docs, convs, id) ==
    IF Stored(store, id)
    THEN [ok |-> TRUE,
          assistants |-> [store EXCEPT ![id].status = "deleted"],
          documents |-> deleteDocumentsByAssistant(docs, id),
          conversations |-> deleteConversationsByAssistant(convs, id)]
    ELSE [ok |-> FALSE, assistants |-> store, documents |-> docs,
          conversations |-> convs]

\* FileStorage.createConversation for a session of an assistant
CreateConversation(assistantId, sessionId) ==
    /\ Len(conversations) < MaxConversations
    /\ issued < MaxIssued
    /\ conversations' = createConversation(conversations,
            [assistantId |-> assistantId, sessionId |-> sessionId])
    /\ issued' = issued + 1
    /\ UNCHANGED <<fs, assistants, documents, watchers, subscriptions, nextWatcher,
                   events, handlers, runs, requests, notifications, returned, clock,
                   created, aiVars, chatVars, selVars>>

\* DELETE /api/assistants/[id]
DeleteAssistant(id) ==
    /\ assistants[id].status # "free"
    /\ Stored(assistants, id) \/ watchers[id] # 0
    /\ SetMonitor(safeStopMonitoring(Monitor, id))
    /\ LET deleted == deleteAssistant(assistants, documents, conversations, id)
       IN /\ assistants' = deleted.assistants
          /\ documents' = deleted.documents
          /\ conversations' = deleted.conversations
    /\ UNCHANGED <<fs, handlers, runs, requests, notifications, returned, clock,
                   issued, created, aiVars, chatVars, selVars>>

\* the loop calls handleFileChange for the next file, which returns at once
\* (lines 49, 55) or suspends at extractText
SyncNextFile(r) ==
    /\ r \in runs
    /\ r.current = <<>>
    /\ r.todo # <<>>
    /\ LET p == Head(r.todo)
       IN runs' = (runs \ {r}) \cup
            {IF ReadsFile(fs, documents, r.assistantId, p, "added")
             THEN [r EXCEPT !.current = <<Pending(fs, r.assistantId, p, "added")>>]
             ELSE [r EXCEPT !.todo = Tail(@), !.processedCount = @ + 1]}
    /\ UNCHANGED <<fs, assistants, documents, watchers, subscriptions, nextWatcher,
                   events, handlers, requests, notifications, returned, clock,
                   issued, created, conversations, aiVars, chatVars, selVars>>

\* handleFileChange resumes and returns to the loop
SyncFileDone(r) ==
    /\ r \in runs
    /\ r.current # <<>>
    /\ AfterExtract(r.current[1])
    /\ runs' = (runs \ {r}) \cup
            {[r EXCEPT !.current = <<>>, !.todo = Tail(@),
                       !.processedCount = @ + 1,
                       !.upserted = @ + (IF r.current[1].rejected THEN 0 ELSE 1)]}
    /\ UNCHANGED <<fs, watchers, subscriptions, nextWatcher, events, handlers, requests,
                   returned, clock,
                   created, conversations, aiVars, chatVars, selVars>>
    /\ issued' = Issued(documents')

\* line 153, and the awaiting request going on
SyncReturn(r) ==
    /\ r \in runs
    /\ r.current = <<>>
    /\ r.todo = <<>>
    /\ LET after == Continue(r.caller, r.assistantId, r.folderPath, assistants,
                             Monitor, fs)
       IN /\ assistants' = after.assistants
          /\ SetMonitor(after.monitor)
    /\ returned' = [returned EXCEPT ![r.assistantId] =
            [called |-> TRUE, threw |-> FALSE, processedCount |-> r.processedCount,
             upserted |-> r.upserted, folderPath |-> r.folderPath]]
    /\ created' = Respond(r.caller, r.assistantId, r.processedCount)
    /\ runs' = runs \ {r}
    /\ UNCHANGED <<fs, documents, handlers, requests, notifications, clock,
                   issued, conversations, aiVars, chatVars, selVars>>

-----------------------------------------------------------------------------
(* POST /api/assistants/[id]/documents (chat/route.ts 220-311) *)

\* line 230: the folder is taken relative to the working directory, a leading
\* "/" dropped
FullFolderPath(documentsFolder) == Join(Cwd, Rel(documentsFolder.segs))

\* lines 238-239: the names in the folder that end in .pdf, whatever they are
PdfFiles(disk, fullFolderPath) ==
    LET items == InOrder(ReadDir(disk, Resolve(fullFolderPath)))
        names == [i \in 1..Len(items) |-> Last(items[i])]
    IN SelectSeq(names, LAMBDA n : EndsWith(ToLowerCase(n), Ext_pdf))

\* lines 252-253: the existence check is by file name
AlreadyProcessed(docs, assistantId, pdfFile) ==
    \E i \in 1..Len(docs) :
        docs[i].assistantId = assistantId /\ docs[i].filename = pdfFile

\* requests in flight are told apart by the order in which they arrived
FreeSlots == (1..MaxRequests) \ {q.n : q \in requests}

\* lines 220-245; requests that answer 404 change nothing
ProcessDocuments(id) ==
    /\ Stored(assistants, id)
    /\ FreeSlots # {}
    /\ LET fullFolderPath == FullFolderPath(assistants[id].documentsFolder)
           n == CHOOSE k \in FreeSlots : \A l \in FreeSlots : k <= l
       IN /\ ExistsSync(fs, Resolve(fullFolderPath))
          /\ PdfFiles(fs, fullFolderPath) # <<>>
          /\ requests' = requests \cup
                {[n |-> n, assistantId |-> id, fullFolderPath |-> fullFolderPath,
                  todo |-> PdfFiles(fs, fullFolderPath), current |-> <<>>]}
    /\ UNCHANGED <<fs, assistants, documents, watchers, subscriptions, nextWatcher,
                   events, handlers, runs, notifications, returned, clock,
                   issued, created, conversations, aiVars, chatVars, selVars>>

\* the request is answered when no file is left
Remaining(q) == IF q.todo = <<>> THEN {} ELSE {q}

\* lines 247-265: the check, the read, and the suspension at pdfParse; a file
\* that is skipped or cannot be read (line 296) leaves the loop to go on
ProcessNextFile(q) ==
    /\ q \in requests
    /\ q.current = <<>>
    /\ q.todo # <<>>
    /\ LET pdfFile == Head(q.todo)
           filePath == Join(q.fullFolderPath, Rel(<<pdfFile>>))
       IN requests' = (requests \ {q}) \cup
            (IF \/ AlreadyProcessed(documents, q.assistantId, pdfFile)
                \/ ~StatIsFile(fs, Resolve(filePath))
             THEN Remaining([q EXCEPT !.todo = Tail(@)])
             ELSE {[q EXCEPT !.current =
                     <<[filePath |-> filePath, pdfFile |-> pdfFile,
                        bytes |-> fs[Resolve(filePath)]]>>]})
    /\ UNCHANGED <<fs, assistants, documents, watchers, subscriptions, nextWatcher,
                   events, handlers, runs, notifications, returned, clock,
                   issued, created, conversations, aiVars, chatVars, selVars>>

\* lines 271-289
RouteDocumentData(assistantId, c) ==
    [assistantId |-> assistantId, filename |-> c.pdfFile, filePath |-> c.filePath,
     mimeType |-> Mime_pdf, content |-> extractText(Mime_pdf, c.bytes),
     processed |-> TRUE, checksum |-> generateChecksum(c.bytes)]

\* lines 265-299: pdfParse has answered; the record is created unless the parse
\* or the statSync threw
ProcessFileDone(q) ==
    /\ q \in requests
    /\ q.current # <<>>
    /\ LET c == q.current[1]
       IN documents' =
            IF ParserRejects(Mime_pdf, c.bytes) \/ StatThrows(fs, Resolve(c.filePath))
            THEN documents
            ELSE createDocument(documents, RouteDocumentData(q.assistantId, c))
    /\ requests' = (requests \ {q}) \cup
            Remaining([q EXCEPT !.current = <<>>, !.todo = Tail(@)])
    /\ UNCHANGED <<fs, assistants, watchers, subscriptions, nextWatcher, events,
                   handlers, runs, notifications, returned, clock,
                   created, conversations, aiVars, chatVars, selVars>>
    /\ issued' = Issued(documents')

-----------------------------------------------------------------------------
(* The system *)

Next ==
    \/ \E e \in Volatile, b \in Bytes : EnvWrite(e, b)
    \/ \E e \in Volatile : EnvTouch(e)
    \/ \E e \in Volatile : EnvRemove(e)
    \/ EnvDanglingLink
    \/ \E i \in 1..Len(events) : OnAddOrChange(i)
    \/ \E i \in 1..Len(events) : OnUnlink(i)
    \/ \E h \in handlers : OnExtracted(h)
    \/ \E id \in AssistantIds, name \in Names, f \in Folders :
            CreateAssistant(id, name, f)
    \/ \E id \in AssistantIds, name \in Names : RenameAssistant(id, name)
    \/ \E id \in AssistantIds, sessionId \in SessionIds :
            CreateConversation(id, sessionId)
    \/ \E id \in AssistantIds, f \in Folders : ChangeFolder(id, f)
    \/ \E id \in AssistantIds : DeleteAssistant(id)
    \/ \E r \in runs : SyncNextFile(r)
    \/ \E r \in runs : SyncFileDone(r)
    \/ \E r \in runs : SyncReturn(r)
    \/ \E id \in AssistantIds : ProcessDocuments(id)
    \/ \E q \in requests : ProcessNextFile(q)
    \/ \E q \in requests : ProcessFileDone(q)

Spec == Init /\ [][Next]_vars

\* The folder synchronizer for one assistant on a disk that does not change:
\* the assistant is created on the documents folder and its folder is changed;
\* both requests run syncFolder and start the watcher
NextSync ==
    \/ CreateAssistant("a1", NameFor["a1"], Rel(<<Str_docs>>))
    \/ \E f \in Folders : ChangeFolder("a1", f)
    \/ \E r \in runs : SyncNextFile(r)
    \/ \E r \in runs : SyncFileDone(r)
    \/ \E r \in runs : SyncReturn(r)
    \/ \E i \in 1..Len(events) : OnAddOrChange(i)
    \/ \E h \in handlers : OnExtracted(h)

SpecSync == InitSync /\ [][NextSync]_vars

\* The change watcher on the folder `other`, whose file the environment
\* rewrites, touches and removes
NextWatch ==
    \/ \E b \in Bytes : EnvWrite(File_o, b)
    \/ EnvTouch(File_o)
    \/ EnvRemove(File_o)
    \/ \E i \in 1..Len(events) : OnAddOrChange(i)
    \/ \E i \in 1..Len(events) : OnUnlink(i)
    \/ \E h \in handlers : OnExtracted(h)
    \/ \E id \in AssistantIds : CreateAssistant(id, NameFor[id], Rel(<<Str_other>>))
    \/ \E r \in runs : SyncNextFile(r)
    \/ \E r \in runs : SyncFileDone(r)
    \/ \E r \in runs : SyncReturn(r)

SpecWatch == Init /\ [][NextWatch]_vars

\* The watcher registry for one assistant: the requests that start and stop
\* monitoring, on the disks of InitSync
NextMonitor ==
    \/ \E f \in Folders : CreateAssistant("a1", NameFor["a1"], f)
    \/ \E f \in Folders : ChangeFolder("a1", f)
    \/ DeleteAssistant("a1")
    \/ \E r \in runs : SyncNextFile(r)
    \/ \E r \in runs : SyncFileDone(r)
    \/ \E r \in runs : SyncReturn(r)

SpecMonitor == InitSync /\ [][NextMonitor]_vars

\* The three writers of the document store for one assistant on the folder
\* `other`: syncFolder, the watcher, and the process-documents requests
NextStore ==
    \/ CreateAssistant("a1", NameFor["a1"], Rel(<<Str_other>>))
    \/ \E r \in runs : SyncNextFile(r)
    \/ \E r \in runs : SyncFileDone(r)
    \/ \E r \in runs : SyncReturn(r)
    \/ \E i \in 1..Len(events) : OnAddOrChange(i)
    \/ \E h \in handlers : OnExtracted(h)
    \/ ProcessDocuments("a1")
    \/ \E q \in requests : ProcessNextFile(q)
    \/ \E q \in requests : ProcessFileDone(q)
    \/ \E b \in Bytes : EnvWrite(File_o, b)
    \/ EnvRemove(File_o)

SpecStore == Init /\ [][NextStore]_vars

-----------------------------------------------------------------------------
(* Claims about the document store and the watcher registry *)

\* C1: for each assistant there is at most one Document record per file path,
\* whatever the interleaving of watcher events, syncFolder runs and
\* process-documents requests.
C1_OneRecordPerPath ==
    \A i, j \in 1..Len(documents) :
        (/\ documents[i].assistantId = documents[j].assistantId
         /\ documents[i].filePath = documents[j].filePath)
        => i = j

\* C5: each assistant has at most one chokidar watcher that is not closed, the
\* one the `watchers` map holds for it: startMonitoring closes the previous
\* watcher before it registers the new one, and after stopMonitoring the
\* assistant has none.
C5_OneWatcherPerAssistant ==
    \A a \in AssistantIds :
        {s.id : s \in {x \in subscriptions : x.assistantId = a}}
            = (IF watchers[a] = 0 THEN {} ELSE {watchers[a]})

\* syncFolder is about to return to a request that will call startMonitoring for
\* an assistant that is being watched
C5_Witness ==
    \E r \in runs :
        /\ r.todo = <<>>
        /\ r.current = <<>>
        /\ watchers[r.assistantId] # 0
        /\ ExistsSync(fs, Resolve(r.folderPath))

-----------------------------------------------------------------------------
(* Claims about the folder synchronizer, under SpecSync *)

\* what the claims compare of the records of an assistant: path and checksum of
\* each record, in the order of the store
Projection(docs, assistantId) ==
    LET mine == getDocumentsByAssistant(docs, assistantId)
    IN [i \in 1..Len(mine) |-> <<mine[i].filePath, mine[i].checksum>>]

\* the last syncFolder call that completed for the run's assistant was on the
\* run's folder and returned normally
SecondRun(r) ==
    /\ returned[r.assistantId].called
    /\ ~returned[r.assistantId].threw
    /\ returned[r.assistantId].folderPath = r.folderPath

\* C2: syncFolder is idempotent on an unchanged folder. Once syncFolder has
\* completed on a folder, no step of the next syncFolder call on that folder
\* changes the assistant's records: same paths, same number of records, same
\* checksum per path.
C2_SyncIdempotent ==
    [][\A r \in runs :
          (SecondRun(r) /\ (SyncNextFile(r) \/ SyncFileDone(r) \/ SyncReturn(r)))
          => Projection(documents', r.assistantId) = Projection(documents, r.assistantId)
      ]_vars

\* a second run has upserted a file again
C2_Witness ==
    \E r \in runs : SecondRun(r) /\ r.upserted >= 1

\* C7: the count syncFolder returns is the number of files whose upsert
\* succeeded during the run.
C7_CountIsUpserts ==
    \A a \in AssistantIds :
        (returned[a].called /\ ~returned[a].threw)
        => returned[a].processedCount = returned[a].upserted

\* C8: syncFolder never creates or updates a record for a hidden file or for a
\* file of an unsupported media type.
C8_SyncSkipsHiddenAndUnsupported ==
    [][\A r \in runs :
          (SyncFileDone(r) /\ documents' # documents)
          => /\ ~IsIgnored(r.current[1].filePath)
             /\ isFileSupported(getMimeType(r.current[1].filePath))
      ]_vars

\* the files of a folder, as syncFolder enumerates them
FilesOf(disk, folderPath) ==
    {getAllFiles(disk, folderPath).files[i] :
        i \in 1..Len(getAllFiles(disk, folderPath).files)}

\* C9: after syncFolder(assistantId, folderPath) completes, the assistant has no
\* record for a file that is not in the folder.
C9_SyncDetectsRemovals ==
    [][\A r \in runs :
          SyncReturn(r)
          => \A i \in 1..Len(documents') :
                documents'[i].assistantId = r.assistantId
                => documents'[i].filePath \in FilesOf(fs, r.folderPath)
      ]_vars

\* the regular files under a folder that handleFileChange accepts and the
\* parser does not reject
Healthy(disk, folderPath) ==
    {ReportedPath(folderPath, e) :
        e \in {x \in Entries : /\ IsPrefix(Resolve(folderPath), x)
                               /\ disk[x] > 0
                               /\ isFileSupported(getMimeType(Rel(x)))
                               /\ ~ParserRejects(getMimeType(Rel(x)), disk[x])}}

\* C10: a failure confined to one file never stops the run: syncFolder returns
\* normally and every other eligible file of the folder has been upserted.
C10_FailureIsolation ==
    \A a \in AssistantIds :
        returned[a].called
        => /\ ~returned[a].threw
           /\ \A p \in Healthy(fs, returned[a].folderPath) :
                 FindDocument(documents, a, p) # 0

-----------------------------------------------------------------------------
(* Claims about the change watcher, under SpecWatch *)

\* some record of (assistantId, filePath) holds the checksum of the file as it is now
StoredChecksumIsCurrent(assistantId, filePath) ==
    /\ StatIsFile(fs, Resolve(filePath))
    /\ \E j \in 1..Len(documents) :
          /\ documents[j].assistantId = assistantId
          /\ documents[j].filePath = filePath
          /\ documents[j].checksum = generateChecksum(fs[Resolve(filePath)])

\* C3: a `changed` event for a path whose file has the checksum stored in the
\* path's record is handled without any write: the records, the assistants
\* (lastDocumentSync) and the notifications stay as they are, and the handler
\* is over (it does not go on to extract).
C3_WatcherSuppression ==
    [][\A i \in 1..Len(events) :
          (/\ OnAddOrChange(i)
           /\ events[i].kind = "change"
           /\ StoredChecksumIsCurrent(AssistantOf(events[i].w), events[i].path))
          => /\ documents' = documents
             /\ assistants' = assistants
             /\ notifications' = notifications
             /\ handlers' = handlers
      ]_vars

\* a touch of the synchronized file has been reported and handled: the disk is
\* as it was, one environment step was taken, no event or handler is left, and
\* no `changed` notification was sent
C3_Witness ==
    /\ clock = 2
    /\ fs[File_o] = 1
    /\ events = <<>>
    /\ handlers = {}
    /\ watchers["a1"] # 0
    /\ FindDocument(documents, "a1", Join(Rel(<<Str_other>>), Rel(<<Str_p_pdf>>))) # 0
    /\ \A n \in notifications : n[3] # "changed"

\* the first record of (assistantId, filePath), the one updateDocument writes
RecordOf(docs, assistantId, filePath) == docs[FindDocument(docs, assistantId, filePath)]

\* the bytes of the file differ from those every record of the path was made of
BytesDiffer(assistantId, filePath) ==
    \A j \in 1..Len(documents) :
        (documents[j].assistantId = assistantId /\ documents[j].filePath = filePath)
        => documents[j].content.bytes # fs[Resolve(filePath)]

\* the checksum of the file differs from the checksum of every record of the path
ChecksumDiffers(assistantId, filePath) ==
    \A j \in 1..Len(documents) :
        (documents[j].assistantId = assistantId /\ documents[j].filePath = filePath)
        => documents[j].checksum # generateChecksum(fs[Resolve(filePath)])

\* the handler of a `changed` event ends with the record holding what it read
EndsWithNewRecord(h) ==
    /\ FindDocument(documents', h.assistantId, h.filePath) # 0
    /\ RecordOf(documents', h.assistantId, h.filePath).checksum = h.checksum
    /\ RecordOf(documents', h.assistantId, h.filePath).content = h.content

Others(docs, assistantId, filePath) ==
    SelectSeq(docs, LAMBDA d : ~(d.assistantId = assistantId /\ d.filePath = filePath))

\* C6: when a `removed` event for path p of assistant a is handled, no record
\* keyed (a, p) is left and every record with another assistant or another path
\* is unchanged.
C6_RemovalDeletesRecord ==
    [][\A i \in 1..Len(events) :
          OnUnlink(i)
          => LET a == AssistantOf(events[i].w)
                 p == events[i].path
             IN /\ FindDocument(documents', a, p) = 0
                /\ Others(documents', a, p) = Others(documents, a, p)
      ]_vars

\* the removal was handled for a1 while a2 holds a record of the same path
C6_Witness ==
    LET p == Join(Rel(<<Str_other>>), Rel(<<Str_p_pdf>>))
    IN /\ <<"a1", p, "removed">> \in notifications
       /\ FindDocument(documents, "a1", p) = 0
       /\ FindDocument(documents, "a2", p) # 0

-----------------------------------------------------------------------------
(* Watching a folder that does not exist *)

\* assistants are created over folders that exist and over one that does not
NextCreate ==
    \/ \E id \in AssistantIds, f \in Folders : CreateAssistant(id, NameFor[id], f)
    \/ \E r \in runs : SyncNextFile(r)
    \/ \E r \in runs : SyncFileDone(r)
    \/ \E r \in runs : SyncReturn(r)

SpecCreate == InitSync /\ [][NextCreate]_vars

\* the folders of the requests that are not on the disk
Missing(disk) == {f \in Folders : ~ExistsSync(disk, Resolve(f))}

\* C11: safeStartMonitoring for an assistant without a watcher and a folder that
\* does not exist leaves the monitor as it is, and a POST that creates an
\* assistant with such a folder registers no watcher, starts no syncFolder,
\* changes no document and no other assistant, stores the assistant and answers
\* 201 with zero processed documents.
C11_MissingFolderIsNoOp ==
    [][/\ \A a \in AssistantIds, f \in Missing(fs) :
            watchers[a] = 0 => safeStartMonitoring(Monitor, fs, a, f) = Monitor
       /\ \A id \in AssistantIds, name \in Names, f \in Missing(fs) :
            CreateAssistant(id, name, f)
            => /\ watchers' = watchers
               /\ subscriptions' = subscriptions
               /\ events' = events
               /\ runs' = runs
               /\ documents' = documents
               /\ \A a \in AssistantIds \ {id} : assistants'[a] = assistants[a]
               /\ Stored(assistants', id)
               /\ assistants'[id].documentsFolder = f
               /\ created'[id] = [status |-> 201, processedDocuments |-> 0]
      ]_vars

\* the assistant was created with the folder that does not exist
C11_Witness ==
    /\ Stored(assistants, "a1")
    /\ assistants["a1"].documentsFolder = Rel(<<Str_nodir>>)
    /\ created["a1"] = [status |-> 201, processedDocuments |-> 0]
    /\ watchers["a1"] = 0

-----------------------------------------------------------------------------
(* sendUpdateNotification throws (file-monitor.ts 98, 110): the call is inside
   the try of the handler, after the writes to the store *)

\* lines 90-102 when the notification throws: the writes are made, the catch logs
UpsertUnnotified(h) ==
    /\ documents' = updateDocument(documents, h.assistantId, h.filePath, documentData(h))
    /\ assistants' = updateAssistant(assistants, h.assistantId,
                                     [lastDocumentSync |-> clock])
    /\ UNCHANGED notifications

\* the watcher's handler resumes, writes, and the notification throws
OnExtractedNotifyThrows(h) ==
    /\ h \in handlers
    /\ ~h.rejected
    /\ UpsertUnnotified(h)
    /\ handlers' = handlers \ {h}
    /\ issued' = Issued(documents')
    /\ UNCHANGED <<fs, watchers, subscriptions, nextWatcher, events, runs, requests,
                   returned, clock, created, conversations, aiVars, chatVars, selVars>>

\* handleFileRemoval deletes the record and the notification throws (107-114)
OnUnlinkNotifyThrows(i) ==
    /\ Deliverable(i)
    /\ events[i].kind = "unlink"
    /\ documents' = deleteDocument(documents, AssistantOf(events[i].w), events[i].path)
    /\ events' = Without(events, i)
    /\ UNCHANGED <<fs, assistants, watchers, subscriptions, nextWatcher, handlers, runs,
                   requests, notifications, returned, clock, issued, created,
                   conversations, aiVars, chatVars, selVars>>

\* a loop that an error of the notification ends
Resumed_Ended(r) == [r EXCEPT !.current = <<>>, !.todo = <<>>]

\* syncFolder 146-147 after handleFileChange has returned: the next file is taken
Resumed(r) ==
    [r EXCEPT !.current = <<>>, !.todo = Tail(@), !.processedCount = @ + 1,
              !.upserted = @ + 1]

\* handleFileChange of a syncFolder run writes, the notification throws, the
\* handler catches it and returns to the loop
SyncFileDoneNotifyThrows(r) ==
    /\ r \in runs
    /\ r.current # <<>>
    /\ ~r.current[1].rejected
    /\ UpsertUnnotified(r.current[1])
    /\ runs' = (runs \ {r}) \cup {Resumed(r)}
    /\ issued' = Issued(documents')
    /\ UNCHANGED <<fs, watchers, subscriptions, nextWatcher, events, handlers, requests,
                   returned, clock, created, conversations, aiVars, chatVars, selVars>>

\* a folder is synchronized and watched while notifications may throw
NextNotify ==
    \/ CreateAssistant("a1", NameFor["a1"], Rel(<<Str_docs>>))
    \/ \E r \in runs : SyncNextFile(r)
    \/ \E r \in runs : SyncFileDone(r)
    \/ \E r \in runs : SyncFileDoneNotifyThrows(r)
    \/ \E r \in runs : SyncReturn(r)
    \/ \E i \in 1..Len(events) : OnAddOrChange(i)
    \/ \E h \in handlers : OnExtracted(h)
    \/ \E h \in handlers : OnExtractedNotifyThrows(h)
    \/ EnvRemove(File_a)
    \/ \E i \in 1..Len(events) : OnUnlink(i)
    \/ \E i \in 1..Len(events) : OnUnlinkNotifyThrows(i)

SpecNotify == Init /\ [][NextNotify]_vars

\* the store holds what the handler wrote for h before it notified
Written(h) ==
    /\ FindDocument(documents', h.assistantId, h.filePath) # 0
    /\ LET d == documents'[FindDocument(documents', h.assistantId, h.filePath)]
       IN d.checksum = h.checksum /\ d.content = h.content
    /\ Stored(assistants, h.assistantId)
       => assistants'[h.assistantId].lastDocumentSync = clock

\* C12: when sendUpdateNotification throws, the record the handler upserted (or
\* deleted) and the assistant's last-sync time stay as written, no request, run
\* or watcher other than the handler itself is affected, and a syncFolder run
\* goes on with the next file, counting the one just handled.
C12_NotificationFailureIsContained ==
    [][/\ \A h \in handlers :
            OnExtractedNotifyThrows(h)
            => /\ Written(h)
               /\ UNCHANGED <<runs, requests, watchers, subscriptions, events>>
       /\ \A i \in 1..Len(events) :
            OnUnlinkNotifyThrows(i)
            => LET a == AssistantOf(events[i].w)
                   p == events[i].path
               IN /\ FindDocument(documents', a, p) = 0
                  /\ Others(documents', a, p) = Others(documents, a, p)
                  /\ UNCHANGED <<runs, requests, handlers, watchers, subscriptions>>
       /\ \A r \in runs :
            SyncFileDoneNotifyThrows(r)
            => /\ Written(r.current[1])
               /\ \E next \in runs' :
                    /\ next.assistantId = r.assistantId
                    /\ next.current = <<>>
                    /\ next.todo = Tail(r.todo)
                    /\ next.processedCount = r.processedCount + 1
               /\ UNCHANGED <<requests, handlers, watchers, subscriptions, events>>
      ]_vars

\* a synchronization has upserted all four supported files, the notification of
\* one stored record is missing, and the record of a.txt, removed afterwards, is
\* gone without a notification
C12_Witness ==
    /\ returned["a1"].called
    /\ returned["a1"].upserted = 4
    /\ \E j \in 1..Len(documents) :
          <<documents[j].assistantId, documents[j].filePath, "added">> \notin notifications
    /\ fs[File_a] = Absent
    /\ FindDocument(documents, "a1", Join(Rel(<<Str_docs>>), Rel(<<Str_a_txt>>))) = 0
    /\ \A n \in notifications : n[3] # "removed"

-----------------------------------------------------------------------------
(* Deleting an assistant *)

\* two assistants over the folder `other`, their conversations, and deletions
NextDelete ==
    \/ \E id \in AssistantIds : CreateAssistant(id, NameFor[id], Rel(<<Str_other>>))
    \/ \E r \in runs : SyncNextFile(r)
    \/ \E r \in runs : SyncFileDone(r)
    \/ \E r \in runs : SyncReturn(r)
    \/ \E id \in AssistantIds, sessionId \in SessionIds :
            CreateConversation(id, sessionId)
    \/ \E id \in AssistantIds : DeleteAssistant(id)

SpecDelete == Init /\ [][NextDelete]_vars

\* the records of a store that belong to other assistants than id
OfOthers(records, id) == SelectSeq(records, LAMBDA d : d.assistantId # id)

\* C19: deleteAssistant(id) returns true exactly when an assistant with the id is
\* stored; then no document and no conversation of id is left and the records of
\* the other assistants are as before; otherwise no assistant, document or
\* conversation is changed.
C19_DeleteCascades ==
    [][\A id \in AssistantIds :
          DeleteAssistant(id)
          => LET deleted == deleteAssistant(assistants, documents, conversations, id)
             IN /\ deleted.ok <=> Stored(assistants, id)
                /\ IF deleted.ok
                   THEN /\ ~Stored(assistants', id)
                        /\ \A j \in 1..Len(documents') : documents'[j].assistantId # id
                        /\ \A j \in 1..Len(conversations') :
                              conversations'[j].assistantId # id
                        /\ documents' = OfOthers(documents, id)
                        /\ conversations' = OfOthers(conversations, id)
                        /\ \A a \in AssistantIds \ {id} : assistants'[a] = assistants[a]
                   ELSE UNCHANGED <<assistants, documents, conversations>>
      ]_vars

\* a1 was deleted with a document and a conversation, of the four ids issued two
\* records are left, those of a2
C19_Witness ==
    /\ assistants["a1"].status = "deleted"
    /\ Stored(assistants, "a2")
    /\ created["a1"].processedDocuments = 1
    /\ issued = 4
    /\ Len(documents) = 1 /\ documents[1].assistantId = "a2"
    /\ Len(conversations) = 1 /\ conversations[1].assistantId = "a2"

-----------------------------------------------------------------------------
(* Slugs *)

\* assistants are created under any of the names, renamed and deleted
NextSlug ==
    \/ \E id \in AssistantIds, name \in Names :
            \E f \in {Rel(<<Str_other>>), Rel(<<Str_nodir>>)} :
                CreateAssistant(id, name, f)
    \/ \E r \in runs : SyncNextFile(r)
    \/ \E r \in runs : SyncFileDone(r)
    \/ \E r \in runs : SyncReturn(r)
    \/ \E id \in AssistantIds, name \in Names : RenameAssistant(id, name)
    \/ \E id \in AssistantIds : DeleteAssistant(id)

SpecSlug == Init /\ [][NextSlug]_vars

\* C20: no two stored assistants have the same slug.
C20_SlugsUnique ==
    \A a, b \in AssistantIds :
        Stored(assistants, a) /\ Stored(assistants, b) /\ a # b
        => assistants[a].slug # assistants[b].slug

-----------------------------------------------------------------------------
(* lib/ai-service.ts: generateResponse, the uploads to the remote store and the
   cache of file ids *)

\* a cache that is never hit
getAmplifyFileId_Miss(cache, doc) == 0

\* getAmplifyFileId (301-309): the cached file id of the document, 0 for null
getAmplifyFileId(cache, doc) ==
    IF doc._id \in DOMAIN cache THEN cache[doc._id] ELSE 0

\* storeAmplifyFileId (311-317)
storeAmplifyFileId(cache, doc, fileId) ==
    [k \in DOMAIN cache \cup {doc._id} |-> IF k = doc._id THEN fileId ELSE cache[k]]

FreeChatSlots == (1..MaxChats) \ {c.n : c \in chats}

\* what generateResponse throws when no assistant has the id (19-21, 56-59)
NotFound(assistantId) ==
    [called |-> TRUE, threw |-> TRUE, response |-> "none",
     fileIds |-> <<>>, failed |-> 0, documents |-> 0]

\* generateResponse up to the loop of ensureDocsUploadedToAmplify (16-27, 113),
\* for a call that takes one of the slots `free`
BeginResponse(assistantId, free) ==
    /\ free # {}
    /\ IF ~Stored(assistants, assistantId)
       THEN /\ answers' = [answers EXCEPT ![assistantId] = NotFound(assistantId)]
            /\ UNCHANGED chats
       ELSE /\ chats' = chats \cup
                {[n |-> CHOOSE n \in free : \A m \in free : n <= m,
                  assistantId |-> assistantId,
                  docs |-> getDocumentsByAssistant(documents, assistantId),
                  i |-> 1, fileIds |-> <<>>, failed |-> 0, upload |-> <<>>]}
            /\ UNCHANGED answers
    /\ UNCHANGED <<fs, assistants, documents, watchers, subscriptions, nextWatcher,
                   events, handlers, runs, requests, notifications, returned, clock,
                   issued, created, conversations, amplifyFileCache, lastUploadError,
                   remoteFiles, nextKey, chatVars, selVars>>

\* a call while fewer than MaxChats calls are in flight
GenerateResponse(assistantId) == BeginResponse(assistantId, FreeChatSlots)

\* uploadDocumentToAmplify 168-180: the original file is sent when it is on the
\* disk, the extracted text otherwise
ContentType(disk, doc) ==
    IF ExistsSync(disk, Resolve(doc.filePath)) THEN Mime_pdf ELSE Mime_txt

\* the loop of ensureDocsUploadedToAmplify takes the next document (115-129): a
\* cached file id is pushed; otherwise uploadDocumentToAmplify runs up to the
\* fetch of the registration (154-221), the timer of 30 s armed
EnsureNext(c) ==
    /\ c \in chats
    /\ c.upload = <<>>
    /\ c.i <= Len(c.docs)
    /\ LET doc == c.docs[c.i]
           existingFileId == getAmplifyFileId(amplifyFileCache, doc)
       IN chats' = (chats \ {c}) \cup
            {IF existingFileId # 0
             THEN [c EXCEPT !.fileIds = Append(@, existingFileId), !.i = @ + 1]
             ELSE [c EXCEPT !.upload =
                      <<[phase |-> "register", key |-> 0,
                         contentType |-> ContentType(fs, doc)]>>]}
    /\ UNCHANGED <<fs, assistants, documents, watchers, subscriptions, nextWatcher,
                   events, handlers, runs, requests, notifications, returned, clock,
                   issued, created, conversations, amplifyFileCache, lastUploadError,
                   remoteFiles, nextKey, answers, chatVars, selVars>>

\* a loop that a failed upload ends
Failed_AbortsBatch(c) ==
    [c EXCEPT !.upload = <<>>, !.i = Len(c.docs) + 1, !.failed = @ + 1]

\* uploadDocumentToAmplify has returned null: the loop goes on (135-137)
Failed(c) == [c EXCEPT !.upload = <<>>, !.i = @ + 1, !.failed = @ + 1]

\* uploadDocumentToAmplify has returned a file id (130-134)
Uploaded(c, fileId) ==
    [c EXCEPT !.upload = <<>>, !.i = @ + 1, !.fileIds = Append(@, fileId)]

\* the headers of the registration's answer arrive: fetch resolves and the
\* timer is cleared (213-223)
RegistrationAnswered(c) ==
    /\ c \in chats
    /\ c.upload # <<>>
    /\ c.upload[1].phase = "register"
    /\ chats' = (chats \ {c}) \cup
            {[c EXCEPT !.upload[1].phase = "acknowledge"]}
    /\ UNCHANGED <<fs, assistants, documents, watchers, subscriptions, nextWatcher,
                   events, handlers, runs, requests, notifications, returned, clock,
                   issued, created, conversations, amplifyFileCache, lastUploadError,
                   remoteFiles, nextKey, answers, chatVars, selVars>>

\* the bodies the registration is answered with: not JSON, success false, no
\* uploadUrl, an uploadUrl without a file id, an uploadUrl with a key
Bodies == {"unparsable", "unsuccessful", "nourl", "url", "key"}

\* the body of the answer has been read (225-268): a status that is not ok
\* (looked at after the body is read, line 229) and an acknowledgement that is
\* not usable end the upload, otherwise the PUT of the bytes is sent, the timer
\* of 60 s armed
AcknowledgementRead(c, ok, body) ==
    /\ c \in chats
    /\ c.upload # <<>>
    /\ c.upload[1].phase = "acknowledge"
    /\ ok /\ body = "key" => nextKey <= MaxKeys
    /\ IF ~ok
       THEN /\ chats' = (chats \ {c}) \cup {Failed(c)}
            /\ lastUploadError' = "status"
            /\ UNCHANGED nextKey
       ELSE IF body \in {"unparsable", "unsuccessful", "nourl"}
       THEN /\ chats' = (chats \ {c}) \cup {Failed(c)}
            /\ UNCHANGED <<lastUploadError, nextKey>>
       ELSE /\ chats' = (chats \ {c}) \cup
                {[c EXCEPT !.upload[1].phase = "transfer",
                           !.upload[1].key = IF body = "key" THEN nextKey ELSE 0]}
            /\ nextKey' = IF body = "key" THEN nextKey + 1 ELSE nextKey
            /\ UNCHANGED lastUploadError
    /\ UNCHANGED <<fs, assistants, documents, watchers, subscriptions, nextWatcher,
                   events, handlers, runs, requests, notifications, returned, clock,
                   issued, created, conversations, amplifyFileCache, remoteFiles,
                   answers, chatVars, selVars>>

\* the PUT of the bytes is answered (261-287, 130-137)
TransferAnswered(c, ok) ==
    /\ c \in chats
    /\ c.upload # <<>>
    /\ c.upload[1].phase = "transfer"
    /\ LET doc == c.docs[c.i]
           fileId == c.upload[1].key
       IN /\ remoteFiles' =
                IF ok /\ fileId # 0
                THEN remoteFiles \cup {[document |-> doc._id, key |-> fileId]}
                ELSE remoteFiles
          /\ IF ok /\ fileId # 0
             THEN /\ chats' = (chats \ {c}) \cup {Uploaded(c, fileId)}
                  /\ amplifyFileCache' = storeAmplifyFileId(amplifyFileCache, doc, fileId)
             ELSE /\ chats' = (chats \ {c}) \cup {Failed(c)}
                  /\ UNCHANGED amplifyFileCache
    /\ UNCHANGED <<fs, assistants, documents, watchers, subscriptions, nextWatcher,
                   events, handlers, runs, requests, notifications, returned, clock,
                   issued, created, conversations, lastUploadError, nextKey, answers,
                   chatVars, selVars>>

\* a fetch, or the reading of the body, rejects with an error of the network
\* (289-298)
RequestFails(c) ==
    /\ c \in chats
    /\ c.upload # <<>>
    /\ chats' = (chats \ {c}) \cup {Failed(c)}
    /\ lastUploadError' = "error"
    /\ UNCHANGED <<fs, assistants, documents, watchers, subscriptions, nextWatcher,
                   events, handlers, runs, requests, notifications, returned, clock,
                   issued, created, conversations, amplifyFileCache, remoteFiles,
                   nextKey, answers, chatVars, selVars>>

\* the phases of an upload in which a timer is armed: the two fetch calls
\* (211-223, 259-270)
Timed == {"register", "transfer"}

\* the timer fires and aborts the fetch: AbortError (290-292)
TimerFires(c) ==
    /\ c \in chats
    /\ c.upload # <<>>
    /\ c.upload[1].phase \in Timed
    /\ chats' = (chats \ {c}) \cup {Failed(c)}
    /\ lastUploadError' = "timeout"
    /\ UNCHANGED <<fs, assistants, documents, watchers, subscriptions, nextWatcher,
                   events, handlers, runs, requests, notifications, returned, clock,
                   issued, created, conversations, amplifyFileCache, remoteFiles,
                   nextKey, answers, chatVars, selVars>>

\* lines 31-44: the response is generated locally, from the documents when file
\* ids were returned, as the error message of the assistant otherwise
LocalResponse(fileIds) ==
    IF Len(fileIds) > 0 THEN "generateDocumentBasedResponse"
    ELSE "generateAssistantSpecificErrorMessage"

\* a flow that raises when no file id was returned
Answer_RaisesWithoutFiles(c) ==
    [called |-> TRUE, threw |-> c.fileIds = <<>>,
     response |-> IF c.fileIds = <<>> THEN "none" ELSE LocalResponse(c.fileIds),
     fileIds |-> c.fileIds, failed |-> c.failed, documents |-> Len(c.docs)]

\* what generateResponse returns (46-55)
Answer(c) ==
    [called |-> TRUE, threw |-> FALSE,
     response |-> LocalResponse(c.fileIds),
     fileIds |-> c.fileIds, failed |-> c.failed, documents |-> Len(c.docs)]

\* the loop has ended: ensureDocsUploadedToAmplify returns the file ids
\* (143-151) and generateResponse its result
Return(c) ==
    /\ c \in chats
    /\ c.upload = <<>>
    /\ c.i > Len(c.docs)
    /\ answers' = [answers EXCEPT ![c.assistantId] = Answer(c)]
    /\ chats' = chats \ {c}
    /\ UNCHANGED <<fs, assistants, documents, watchers, subscriptions, nextWatcher,
                   events, handlers, runs, requests, notifications, returned, clock,
                   issued, created, conversations, amplifyFileCache, lastUploadError,
                   remoteFiles, nextKey, chatVars, selVars>>

\* the server process is started again: the JSON files and the remote store
\* keep what they hold, everything held in memory is gone
Restart ==
    /\ watchers' = [a \in AssistantIds |-> 0]
    /\ subscriptions' = {}
    /\ events' = <<>>
    /\ handlers' = {}
    /\ runs' = {}
    /\ requests' = {}
    /\ chats' = {}
    /\ amplifyFileCache' = NoEntries
    /\ lastUploadError' = "null"
    /\ UNCHANGED <<fs, assistants, documents, nextWatcher, notifications, returned,
                   clock, issued, created, conversations, remoteFiles, nextKey,
                   answers, chatVars, selVars>>

\* an assistant over the folder `docs` or over a folder that does not exist, and
\* chats with it and with an assistant that is not stored, requested while no
\* synchronization is running
NextUpload ==
    \/ \E f \in {Rel(<<Str_docs>>), Rel(<<Str_nodir>>)} :
            CreateAssistant("a1", NameFor["a1"], f)
    \/ \E r \in runs : SyncNextFile(r)
    \/ \E r \in runs : SyncFileDone(r)
    \/ \E r \in runs : SyncReturn(r)
    \/ \E a \in AssistantIds : runs = {} /\ GenerateResponse(a)
    \/ \E c \in chats : EnsureNext(c)
    \/ \E c \in chats : RegistrationAnswered(c)
    \/ \E c \in chats, ok \in BOOLEAN, body \in Bodies : AcknowledgementRead(c, ok, body)
    \/ \E c \in chats, ok \in BOOLEAN : TransferAnswered(c, ok)
    \/ \E c \in chats : RequestFails(c)
    \/ \E c \in chats : TimerFires(c)
    \/ \E c \in chats : Return(c)

\* a disk whose folder `docs` holds a.txt and b.PDF and nothing else
InitUpload ==
    /\ fs = [e \in Entries |-> IF e \in {File_a, File_b, File_o} THEN 1 ELSE Absent]
    /\ Fresh

SpecUpload == InitUpload /\ [][NextUpload]_vars

\* the same, with restarts of the server
NextRestart ==
    \/ \E f \in {Rel(<<Str_docs>>), Rel(<<Str_nodir>>)} :
            CreateAssistant("a1", NameFor["a1"], f)
    \/ \E r \in runs : SyncNextFile(r)
    \/ \E r \in runs : SyncFileDone(r)
    \/ \E r \in runs : SyncReturn(r)
    \/ \E a \in AssistantIds : runs = {} /\ GenerateResponse(a)
    \/ \E c \in chats : EnsureNext(c)
    \/ \E c \in chats : RegistrationAnswered(c)
    \/ \E c \in chats, ok \in BOOLEAN, body \in Bodies : AcknowledgementRead(c, ok, body)
    \/ \E c \in chats, ok \in BOOLEAN : TransferAnswered(c, ok)
    \/ \E c \in chats : RequestFails(c)
    \/ \E c \in chats : TimerFires(c)
    \/ \E c \in chats : Return(c)
    \/ Restart

SpecRestart == InitUpload /\ [][NextRestart]_vars

-----------------------------------------------------------------------------
(* The cache of file ids *)

\* the call c as it is after a step
After(c) == CHOOSE d \in chats' : d.n = c.n

\* C13: when ensureDocsUploadedToAmplify comes to a document whose id has an
\* entry in the cache, no upload is started for it, the remote store is not
\* contacted, and the file id pushed onto the returned list is the cached one.
C13_CachedIdIsReused ==
    [][\A c \in chats :
          /\ EnsureNext(c)
          /\ c.docs[c.i]._id \in DOMAIN amplifyFileCache
          => /\ After(c).upload = <<>>
             /\ After(c).fileIds = Append(c.fileIds, amplifyFileCache[c.docs[c.i]._id])
             /\ After(c).i = c.i + 1
             /\ UNCHANGED <<remoteFiles, nextKey, amplifyFileCache>>
      ]_vars

\* one key was ever issued; a call has returned it and a later call, still in
\* flight, has taken it from the cache
C13_Witness ==
    /\ nextKey = 2
    /\ answers["a1"].called
    /\ answers["a1"].fileIds = <<1>>
    /\ \E c \in chats : c.fileIds = <<1>>

\* the keys the remote store holds for the document
KeysOf(doc) == {f.key : f \in {g \in remoteFiles : g.document = doc._id}}

\* C14: once a document has been uploaded successfully its file id stays with
\* the document, restarts of the server included: when the loop comes to such a
\* document it starts no upload and pushes the file id it was given.
C14_IdSurvivesRestart ==
    [][\A c \in chats :
          /\ EnsureNext(c)
          /\ KeysOf(c.docs[c.i]) # {}
          => /\ After(c).upload = <<>>
             /\ \E key \in KeysOf(c.docs[c.i]) :
                    After(c).fileIds = Append(c.fileIds, key)
      ]_vars

\* the upload that call c was waiting for has ended in this step
UploadEnds(c) ==
    /\ c.upload # <<>>
    /\ \E d \in chats' : d.n = c.n /\ d.upload = <<>>

\* C15: an upload that ends, however it ends, leaves the call in the loop with
\* the next document as its next one; a failed upload adds nothing to the list
\* of file ids and a successful one adds the file id it was given; no call
\* leaves the loop before its last document, and the list returned has one
\* file id for every document that did not fail.
C15_UploadFailureIsContained ==
    [][/\ \A c \in chats :
            \/ \E d \in chats' : d.n = c.n /\ d.docs = c.docs
            \/ c.upload = <<>> /\ c.i = Len(c.docs) + 1
       /\ \A c \in chats :
            UploadEnds(c)
            => /\ After(c).i = c.i + 1
               /\ \/ /\ After(c).failed = c.failed + 1
                     /\ After(c).fileIds = c.fileIds
                  \/ /\ After(c).failed = c.failed
                     /\ c.upload[1].key # 0
                     /\ After(c).fileIds = Append(c.fileIds, c.upload[1].key)
       /\ \A c \in chats :
            Return(c)
            => /\ c.i = Len(c.docs) + 1
               /\ Len(c.fileIds) + c.failed = Len(c.docs)
               /\ answers'[c.assistantId].fileIds = c.fileIds
      ]_vars

\* the upload of the first document has failed and the second document was
\* uploaded: the list returned holds the file id of the second alone
C15_Witness ==
    /\ answers["a1"].called
    /\ answers["a1"].documents = 2
    /\ answers["a1"].failed = 1
    /\ answers["a1"].fileIds = <<1>>
    /\ DOMAIN amplifyFileCache = {2}

-----------------------------------------------------------------------------
(* Termination of the uploads *)

\* What runs without the remote service runs: the loop takes its next document,
\* an armed timer fires, a call whose loop has ended returns. Nothing is assumed
\* of the steps the remote service takes.
Fairness ==
    \A n \in 1..MaxChats :
        /\ WF_vars(\E c \in chats : c.n = n /\ EnsureNext(c))
        /\ WF_vars(\E c \in chats : c.n = n /\ TimerFires(c))
        /\ WF_vars(\E c \in chats : c.n = n /\ Return(c))

SpecUploadFair == InitUpload /\ [][NextUpload]_vars /\ Fairness

\* call n waits for an upload
Uploading(n) == \E c \in chats : c.n = n /\ c.upload # <<>>

\* C16: every upload ends, whatever the remote service does or fails to do.
C16_UploadsTerminate ==
    \A n \in 1..MaxChats : Uploading(n) ~> ~Uploading(n)

-----------------------------------------------------------------------------
(* Degradation *)

\* the responses generateResponse builds without the remote service
LocalResponses == {"generateDocumentBasedResponse", "generateAssistantSpecificErrorMessage"}

-----------------------------------------------------------------------------
(* app/api/assistants/[id]/chat/route.ts: POST, lines 7-125.  The route keeps
   its conversations in the 'conversations' collection of the database, not in
   conversations.json; the steps of the generateResponse call it awaits are
   the actions of lib/ai-service.ts above, which do not touch the collection. *)

\* params.id: the assistants the database holds as active, and one it does not hold
UnknownAssistant == "a0"
Params == AssistantIds \cup {UnknownAssistant}

\* db.collection('assistants').findOne({_id, isActive: true})  (20-23)
findAssistant(id) == id \in AssistantIds

\* body.sessionId and body.conversationId: 0 when the request carries none
SessionInputs == {0} \cup SessionIds
ConversationInputs == 0..MaxStored

\* sessionId || uuidv4()  (31)
currentSessionId(sessionId) ==
    IF sessionId # 0 THEN <<"client", sessionId>> ELSE <<"uuid", uuids + 1>>

\* db.collection('conversations').findOne({_id, assistantId})  (34-37)
findOne(coll, conversationId, assistantId) ==
    {i \in 1..Len(coll) : /\ coll[i]._id = conversationId
                          /\ coll[i].assistantId = assistantId}

\* db.collection('conversations').insertOne(conversation)  (51-52, 64-65)
insertOne(coll, conversation) ==
    Append(coll, Spread(conversation, [_id |-> Len(coll) + 1]))

\* db.collection('conversations').updateOne({_id}, {$set: {messages}})  (102-110)
updateOne(coll, id, messages) ==
    [i \in 1..Len(coll) |->
        IF coll[i]._id = id THEN [coll[i] EXCEPT !.messages = messages] ELSE coll[i]]

FreePostSlots == {n \in 1..MaxPosts : \A p \in posts : p.n # n}

\* POST up to `await AIService.generateResponse` (7-83)
PostChat(n, id, message, sessionId, conversationId) ==
    /\ n \in FreePostSlots
    /\ IF ~message
       THEN /\ replied' = [replied EXCEPT ![n] = 400]
            /\ UNCHANGED <<collection, posts, uuids>>
       ELSE IF ~findAssistant(id)
       THEN /\ replied' = [replied EXCEPT ![n] = 404]
            /\ UNCHANGED <<collection, posts, uuids>>
       ELSE LET session  == currentSessionId(sessionId)
                used     == IF sessionId # 0 THEN 0 ELSE 1
                found    == IF conversationId # 0
                            THEN findOne(collection, conversationId, id)
                            ELSE {}
                fresh    == [assistantId |-> id, sessionId |-> session,
                             messages |-> <<>>]
                stored   == IF found # {} THEN collection
                            ELSE insertOne(collection, fresh)
                conversation == IF found # {}
                                THEN collection[CHOOSE i \in found : TRUE]
                                ELSE stored[Len(stored)]
                userMessage == [id |-> uuids + used + 1, role |-> "user"]
            IN /\ uuids + used + 2 <= MaxUuids
               /\ Len(stored) <= MaxStored
               /\ collection' = stored
               /\ uuids' = uuids + used + 1
               /\ posts' = posts \cup
                    {[n |-> n, _id |-> conversation._id,
                      messages |-> Append(conversation.messages, userMessage)]}
               /\ UNCHANGED replied
    /\ UNCHANGED <<fs, assistants, documents, watchers, subscriptions, nextWatcher,
                   events, handlers, runs, requests, notifications, returned, clock,
                   issued, created, conversations, aiVars, selVars>>

\* POST after `await AIService.generateResponse` (79-124): the call returned or threw
PostResumed(p, threw) ==
    /\ p \in posts
    /\ posts' = posts \ {p}
    /\ IF threw
       THEN /\ replied' = [replied EXCEPT ![p.n] = 500]
            /\ UNCHANGED <<collection, uuids>>
       ELSE LET assistantMessage == [id |-> uuids + 1, role |-> "assistant"]
            IN /\ collection' = updateOne(collection, p._id,
                                          Append(p.messages, assistantMessage))
               /\ uuids' = uuids + 1
               /\ replied' = [replied EXCEPT ![p.n] = 200]
    /\ UNCHANGED <<fs, assistants, documents, watchers, subscriptions, nextWatcher,
                   events, handlers, runs, requests, notifications, returned, clock,
                   issued, created, conversations, aiVars, selVars>>

NextChat ==
    \/ \E n \in 1..MaxPosts, id \in Params, message \in BOOLEAN,
          sessionId \in SessionInputs, conversationId \in ConversationInputs :
            PostChat(n, id, message, sessionId, conversationId)
    \/ \E p \in posts, threw \in BOOLEAN : PostResumed(p, threw)

SpecChat == Init /\ [][NextChat]_vars

\* the stored conversations of an assistant with a session id
BySession(coll, assistantId, session) ==
    {i \in 1..Len(coll) : /\ coll[i].assistantId = assistantId
                          /\ coll[i].sessionId = session}

\* C21: a chat request that carries the session id of a stored conversation
\* of the assistant, and no conversation id, creates no conversation (it is
\* resumed), so that at most one conversation exists per assistant and session
C21_ResumedBySession ==
    [][\A n \in 1..MaxPosts, id \in AssistantIds, sessionId \in SessionIds :
         (/\ BySession(collection, id, <<"client", sessionId>>) # {}
          /\ PostChat(n, id, TRUE, sessionId, 0))
         => /\ Len(collection') = Len(collection)
            /\ Cardinality(BySession(collection', id, <<"client", sessionId>>)) = 1]_vars
\* C22: the stored messages of a conversation are append-only: every step of
\* every chat request leaves each stored message list an extension of what
\* it was, whatever the interleaving of the requests on the conversation
C22_MessagesAppendOnly ==
    [][\A i \in 1..Len(collection) :
         /\ i <= Len(collection')
         /\ collection'[i]._id = collection[i]._id
         /\ IsPrefix(collection[i].messages, collection'[i].messages)]_vars

-----------------------------------------------------------------------------
(* Handlers of the watcher in flight together *)

\* two assistants over the folder `docs` with its two supported files, one of
\* which the environment rewrites once, with bytes the parser rejects or with
\* bytes it accepts: the handlers of the watchers' events and of the folder
\* syncs are suspended and resumed in every order
NextUpsert ==
    \/ \E id \in AssistantIds : CreateAssistant(id, NameFor[id], Rel(<<Str_docs>>))
    \/ \E r \in runs : SyncNextFile(r)
    \/ \E r \in runs : SyncFileDone(r)
    \/ \E r \in runs : SyncReturn(r)
    \/ \E i \in 1..Len(events) : OnAddOrChange(i)
    \/ \E h \in handlers : OnExtracted(h)
    \/ \E b \in {CorruptBytes, CorruptBytes + 1} : clock = 1 /\ EnvWrite(File_b, b)

SpecUpsert == InitUpload /\ [][NextUpsert]_vars

\* the records of an assistant's path
RecordsOf(docs, assistantId, filePath) ==
    {i \in 1..Len(docs) : docs[i].assistantId = assistantId /\ docs[i].filePath = filePath}

\* C23: when a watcher's handler that has extracted its text resumes, its path
\* has exactly one record, which carries the content and checksum the handler
\* read, and the records of every other path and of every other assistant are
\* as they were, whichever other handlers are in flight
C23_ConcurrentUpsertsAreSafe ==
    [][\A h \in handlers :
         (OnExtracted(h) /\ ~h.rejected)
         => /\ Cardinality(RecordsOf(documents', h.assistantId, h.filePath)) = 1
            /\ Written(h)
            /\ Others(documents', h.assistantId, h.filePath)
                 = Others(documents, h.assistantId, h.filePath)]_vars

\* a handler is still awaiting its text while the handler of a later `change`
\* event for another path of the same assistant has written its record
C23_Witness ==
    \E h \in handlers, n \in notifications :
        /\ n[1] = h.assistantId
        /\ n[2] # h.filePath
        /\ n[3] = "changed"
        /\ Cardinality(RecordsOf(documents, n[1], n[2])) = 1
        /\ RecordOf(documents, n[1], n[2]).content.bytes = fs[File_b]
        /\ fs[File_b] # 1

-----------------------------------------------------------------------------
(* lib/ai-service.ts 322-435: the context selector.  A document's content is a
   sequence of blocks of BlockSize characters, each made of lines of LineLength
   characters; a block is told by the text its first line starts with:
     prose      nothing that is searched for
     mention    University policy on withdrawal and tuition
     tocTitle   Table of Contents
     tocSpaced  Refunds of Tuition and Residence Hall Charges . . . . . . . . 42
     tocDots    Refunds of Tuition and Residence Hall Charges .......... 42
     heading    Refunds of Tuition and Residence Hall Charges
   An excerpt is the range [from, to) of the characters it was cut from. *)

BlockKinds == {"prose", "mention", "tocTitle", "tocSpaced", "tocDots", "heading"}

Contents == UNION {[1..n -> BlockKinds] : n \in 1..MaxBlocks}

\* the number of characters of the texts that are searched for
Length ==
    [t \in {"refunds of tuition", "withdrawal", "tuition", ". . . . . . . .",
            "table of contents", "University policy",
            "Refunds of Tuition and Residence Hall Charges"} |->
        CASE t = "refunds of tuition" -> 18
          [] t = "withdrawal" -> 10
          [] t = "tuition" -> 7
          [] t = ". . . . . . . ." -> 15
          [] t = "table of contents" -> 17
          [] t = "University policy" -> 17
          [] t = "Refunds of Tuition and Residence Hall Charges" -> 45]

\* where a text first occurs in a block of the kind, -1 if nowhere: lower-case
\* texts as found in content.toLowerCase(), the others as found in content
Find(kind, text) ==
    CASE kind \in {"tocSpaced", "tocDots", "heading"}
            /\ text \in {"refunds of tuition",
                         "Refunds of Tuition and Residence Hall Charges"} -> 0
      [] kind \in {"tocSpaced", "tocDots", "heading"} /\ text = "tuition" -> 11
      [] kind = "tocSpaced" /\ text = ". . . . . . . ." -> 46
      [] kind = "tocTitle" /\ text = "table of contents" -> 0
      [] kind = "mention" /\ text = "University policy" -> 0
      [] kind = "mention" /\ text = "withdrawal" -> 21
      [] kind = "mention" /\ text = "tuition" -> 36
      [] OTHER -> 0 - 1

\* the number of characters of a table-of-contents line
TocLineLength(kind) == IF kind = "tocSpaced" THEN 64 ELSE 59

BlockStart(j) == (j - 1) * BlockSize

ContentLength(content) == Len(content) * BlockSize

Min(a, b) == IF a <= b THEN a ELSE b
Max(a, b) == IF a >= b THEN a ELSE b

\* content.indexOf(text)
IndexOf(content, text) ==
    LET hits == {j \in 1..Len(content) : Find(content[j], text) >= 0}
    IN IF hits = {} THEN 0 - 1
       ELSE LET j == CHOOSE j \in hits : \A k \in hits : j <= k
            IN BlockStart(j) + Find(content[j], text)

\* content.substring(start, end)
Substring(start, end) == [from |-> start, to |-> Max(start, end)]

SectionLength(section) == section.to - section.from

\* section.includes(text)
Includes(content, section, text) ==
    \E j \in 1..Len(content) :
        /\ Find(content[j], text) >= 0
        /\ section.from <= BlockStart(j) + Find(content[j], text)
        /\ BlockStart(j) + Find(content[j], text) + Length[text] <= section.to

\* section.split('\n').length: every line ends with a line break
SplitLines(section) ==
    (section.to \div LineLength) - (section.from \div LineLength) + 1

\* query.toLowerCase().includes(phrase), for a query given as its words
QueryIncludes(query, phrase) == \E i \in 1..Len(query) : query[i] = phrase

\* lines 353-369: the phrases that are searched for
TargetPhrases(query) ==
    IF \E phrase \in {"refund", "tuition refund", "withdrawal",
                      "university policy for the refund"} : QueryIncludes(query, phrase)
    THEN <<"university policy for the refund of tuition", "refunds of tuition",
           "withdrawal", "percentage refund">>
    ELSE IF \E phrase \in {"financial aid", "scholarship", "grant", "loan", "fafsa"} :
                QueryIncludes(query, phrase)
    THEN <<"financial aid", "scholarship", "grant", "fafsa">>
    ELSE IF \E phrase \in {"housing", "residence hall", "residential", "dorm"} :
                QueryIncludes(query, phrase)
    THEN <<"residence hall", "housing", "residential">>
    ELSE query

\* lines 376-392: the section around a phrase, and whether it is kept
SectionAround(content, phraseIndex) ==
    Substring(Max(0, phraseIndex - 1000),
              Min(ContentLength(content), phraseIndex + 4000))

LooksLikeContent(content, section) ==
    /\ ~Includes(content, section, ". . . . . . . .")
    /\ ~Includes(content, section, "table of contents")
    /\ SplitLines(section) > 3

BestSections(content, phrases) ==
    LET Kept(i) == /\ phrases[i] \in DOMAIN Length
                   /\ IndexOf(content, phrases[i]) # 0 - 1
                   /\ LooksLikeContent(content,
                          SectionAround(content, IndexOf(content, phrases[i])))
    IN {i \in 1..Len(phrases) : Kept(i)}

\* lines 349-403: the longest kept section, the first of them if several are
\* as long; the empty string if none is kept
extractQueryRelevantContent(content, query) ==
    LET phrases == TargetPhrases(query)
        best == BestSections(content, phrases)
        SectionOf(i) == SectionAround(content, IndexOf(content, phrases[i]))
    IN IF best = {} THEN Substring(0, 0)
       ELSE SectionOf(CHOOSE i \in best :
                \A k \in best :
                    \/ SectionLength(SectionOf(k)) < SectionLength(SectionOf(i))
                    \/ SectionLength(SectionOf(k)) = SectionLength(SectionOf(i)) /\ i <= k)

policyMarkers ==
    <<"University policy", "Refunds of Tuition and Residence Hall Charges",
      "Financial Responsibility", "Enrollment and Financial Matters",
      "Administrative Policies">>

\* lines 415-421: the section around a marker
PolicySection(content, markerIndex) ==
    Substring(Max(0, markerIndex - 500),
              Min(ContentLength(content), markerIndex + 3000))

\* lines 405-435
extractPolicyContent(content) ==
    LET found == {i \in 1..Len(policyMarkers) :
                    /\ policyMarkers[i] \in DOMAIN Length
                    /\ IndexOf(content, policyMarkers[i]) # 0 - 1
                    /\ SectionLength(PolicySection(content,
                            IndexOf(content, policyMarkers[i]))) > 1000}
        middleStart == (ContentLength(content) * 6) \div 10
    IN IF found # {}
       THEN PolicySection(content,
                IndexOf(content, policyMarkers[CHOOSE i \in found : \A k \in found : i <= k]))
       ELSE Substring(middleStart, Min(ContentLength(content), middleStart + 4000))

\* lines 335-340: the excerpt of one document
RelevantContent(content, query) ==
    LET relevant == extractQueryRelevantContent(content, query)
    IN IF SectionLength(relevant) < 500 THEN extractPolicyContent(content)
       ELSE relevant

Queries == {<<"refund">>, <<"tuition">>}

\* buildEnhancedContext, for the document and the query of the request
BuildEnhancedContext ==
    /\ ~relevantContent.called
    /\ relevantContent' =
            Spread(RelevantContent(docContent, userQuery), [called |-> TRUE])
    /\ UNCHANGED <<fs, assistants, documents, watchers, subscriptions, nextWatcher,
                   events, handlers, runs, requests, notifications, returned, clock,
                   issued, created, conversations, aiVars, chatVars, docContent,
                   userQuery>>

InitSelect ==
    /\ fs = [e \in Entries |-> IF e = File_l THEN Absent ELSE 1]
    /\ Started
    /\ docContent \in Contents
    /\ userQuery \in Queries
    /\ relevantContent = NoExcerpt

NextSelect == BuildEnhancedContext

SpecSelect == InitSelect /\ [][NextSelect]_vars

\* the table-of-contents lines with dot leaders
TocLines(content) == {j \in 1..Len(content) : content[j] \in {"tocSpaced", "tocDots"}}

\* the excerpt holds the whole line that block j starts with
HoldsLine(excerpt, j, length) ==
    /\ excerpt.from <= BlockStart(j)
    /\ BlockStart(j) + length <= excerpt.to

\* C24: for a query about refunds and a document in which the matched phrase
\* occurs once only, inside a table-of-contents line with dot leaders
\* (consecutive or spaced), the selected excerpt does not contain that line
C24_TableOfContentsRejected ==
    (/\ relevantContent.called
     /\ userQuery = <<"refund">>)
    => \A j \in TocLines(docContent) :
         (\A k \in 1..Len(docContent) :
              Find(docContent[k], "refunds of tuition") >= 0 => k = j)
         => ~HoldsLine(relevantContent, j, TocLineLength(docContent[j]))

\* C25: for a query that contains "refund" or "tuition" and a document with a
\* section headed "Refunds of Tuition and Residence Hall Charges", the
\* selected excerpt contains the text of the heading
C25_HeadingIsSelected ==
    (/\ relevantContent.called
     /\ \E j \in 1..Len(docContent) : docContent[j] = "heading")
    => Includes(docContent, relevantContent,
                "Refunds of Tuition and Residence Hall Charges")

-----------------------------------------------------------------------------
(* Events for one path *)

\* nothing is pending: no event to deliver, no handler or sync in flight
Quiescent == events = <<>> /\ handlers = {} /\ runs = {}

\* C26: events for one path take effect in the order they arrive: once the
\* watcher is quiescent, the record of a watched file that the parser accepts
\* carries the checksum of the file's current bytes
C26_LaterEventWins ==
    \A a \in AssistantIds :
        (/\ Quiescent
         /\ watchers[a] # 0
         /\ fs[File_o] > 0
         /\ fs[File_o] # CorruptBytes
         /\ \E j \in 1..Len(documents) :
                documents[j].assistantId = a /\ Resolve(documents[j].filePath) = File_o)
        => \A j \in 1..Len(documents) :
                (documents[j].assistantId = a /\ Resolve(documents[j].filePath) = File_o)
                => documents[j].checksum = generateChecksum(fs[File_o])

\* C27: the record of a removed file is not brought back: once the watcher is
\* quiescent, a file that is gone and whose `removed` event has been handled
\* has no record, whatever handler for its path was in flight at that moment
C27_RemovedStaysRemoved ==
    \A a \in AssistantIds, j \in 1..Len(documents) :
        (/\ Quiescent
         /\ fs[File_o] = Absent
         /\ documents[j].assistantId = a
         /\ Resolve(documents[j].filePath) = File_o)
        => <<a, documents[j].filePath, "removed">> \notin notifications

-----------------------------------------------------------------------------
(* Deleting an assistant whose files are being processed *)

\* assistants over the folder `other` are created and deleted while the
\* folder sync of the creation and the handlers of the watcher are in flight
NextOrphan ==
    \/ \E id \in AssistantIds : CreateAssistant(id, NameFor[id], Rel(<<Str_other>>))
    \/ \E r \in runs : SyncNextFile(r)
    \/ \E r \in runs : SyncFileDone(r)
    \/ \E r \in runs : SyncReturn(r)
    \/ \E i \in 1..Len(events) : OnAddOrChange(i)
    \/ \E h \in handlers : OnExtracted(h)
    \/ \E id \in AssistantIds : DeleteAssistant(id)

SpecOrphan == Init /\ [][NextOrphan]_vars

\* C28: a deleted assistant has no document record, in any state after the
\* delete request, whatever handler or folder sync was in flight for it
C28_NoOrphanDocuments ==
    \A a \in AssistantIds :
        assistants[a].status = "deleted"
        => \A j \in 1..Len(documents) : documents[j].assistantId # a

-----------------------------------------------------------------------------
(* The cache of file ids and documents whose files change *)

\* an assistant over the folder `docs` answers chats while the files of the
\* folder are rewritten and the watcher's handlers upsert their records
NextStale ==
    \/ CreateAssistant("a1", NameFor["a1"], Rel(<<Str_docs>>))
    \/ \E r \in runs : SyncNextFile(r)
    \/ \E r \in runs : SyncFileDone(r)
    \/ \E r \in runs : SyncReturn(r)
    \/ runs = {} /\ GenerateResponse("a1")
    \/ \E c \in chats : EnsureNext(c)
    \/ \E c \in chats : RegistrationAnswered(c)
    \/ \E c \in chats, ok \in BOOLEAN, body \in Bodies : AcknowledgementRead(c, ok, body)
    \/ \E c \in chats, ok \in BOOLEAN : TransferAnswered(c, ok)
    \/ \E c \in chats : Return(c)
    \/ \E e \in {File_a, File_b} : EnvWrite(e, MaxByte - 1)
    \/ \E i \in 1..Len(events) : OnAddOrChange(i)
    \/ \E h \in handlers : OnExtracted(h)

SpecStale == InitUpload /\ [][NextStale]_vars

\* C29: when a handler of the watcher upserts a new checksum into a record
\* whose document has a file id in the cache, the cache gives no file id for
\* the document afterwards, so that the next call uploads it again
C29_ChangedDocumentIsUploadedAgain ==
    [][\A h \in handlers :
          /\ OnExtracted(h)
          /\ ~h.rejected
          /\ FindDocument(documents, h.assistantId, h.filePath) # 0
          /\ RecordOf(documents, h.assistantId, h.filePath).checksum # h.checksum
          /\ getAmplifyFileId(amplifyFileCache,
                              RecordOf(documents, h.assistantId, h.filePath)) # 0
          => getAmplifyFileId(amplifyFileCache',
                              RecordOf(documents', h.assistantId, h.filePath)) = 0
      ]_vars

-----------------------------------------------------------------------------
(* Calls of generateResponse that overlap *)

FreeOverlapSlots == (1..MaxOverlap) \ {c.n : c \in chats}

\* an assistant over the folder `other`, which holds p.pdf, and up to
\* MaxOverlap calls of generateResponse for it in flight at once
NextOverlap ==
    \/ CreateAssistant("a1", NameFor["a1"], Rel(<<Str_other>>))
    \/ \E r \in runs : SyncNextFile(r)
    \/ \E r \in runs : SyncFileDone(r)
    \/ \E r \in runs : SyncReturn(r)
    \/ runs = {} /\ BeginResponse("a1", FreeOverlapSlots)
    \/ \E c \in chats : EnsureNext(c)
    \/ \E c \in chats : RegistrationAnswered(c)
    \/ \E c \in chats, ok \in BOOLEAN, body \in Bodies : AcknowledgementRead(c, ok, body)
    \/ \E c \in chats, ok \in BOOLEAN : TransferAnswered(c, ok)
    \/ \E c \in chats : RequestFails(c)
    \/ \E c \in chats : TimerFires(c)
    \/ \E c \in chats : Return(c)

SpecOverlap == Init /\ [][NextOverlap]_vars

\* C30: the remote store holds at most one file for a document, and the calls
\* in flight for the assistant hold the same file id for it
C30_NoDuplicateUploads ==
    /\ \A j \in 1..Len(documents) : Cardinality(KeysOf(documents[j])) <= 1
    /\ \A c, d \in chats :
          \A i \in 1..Len(c.fileIds), k \in 1..Len(d.fileIds) :
              c.fileIds[i] = d.fileIds[k]

====
